---- MODULE Spec2Model ----
(***************************************************************************)
(* Model of setup_laravel_jetstream_sudo.py: the command runner            *)
(* (run_command), the two thread targets of a new installation             *)
(* (setup_mysql_thread_target, deploy_codebase_thread_target) and the part *)
(* of main() that starts them, joins them and evaluates the result.        *)
(*                                                                         *)
(* Text is modelled at word granularity: a captured stderr is a sequence   *)
(* of words, str.lower() maps every word to its lower-case form and the    *)
(* `in` operator is contiguous-subsequence search.                         *)
(***************************************************************************)
EXTENDS Integers, Sequences, FiniteSets, TLC

\* ------------------------------------------------------------------ bounds
\* longest captured stderr, in words
MaxWords == 3
\* exit codes range over 0..MaxExitCode
MaxExitCode == 2

\* ------------------------------------------------------------ text helpers
Vocabulary ==
    {"database", "Database", "exists", "user", "can't", "create",
     "duplicate", "entry", "denied"}

\* str.lower() on one word
LowerWord(w) ==
    CASE w = "Database" -> "database"
      [] OTHER -> w

\* str.lower() on a text
Lower(s) == [i \in 1..Len(s) |-> LowerWord(s[i])]

\* `p in s` for texts
Contains(s, p) ==
    \E i \in 0..(Len(s) - Len(p)) : \A j \in 1..Len(p) : s[i + j] = p[j]

Stderrs == UNION {[1..n -> Vocabulary] : n \in 0..MaxWords}

ExitCodes == 0..MaxExitCode

\* what subprocess.Popen does: it starts the process or raises
PopenOutcomes == {"ok", "FileNotFoundError", "OSError"}

\* the ignore_error_codes arguments: the default, [1] and another code
IgnoreChoices == {{}, {1}, {MaxExitCode}}

\* ------------------------------------------------------------ run_command
\* the four substrings tested on stderr_full.lower()
BenignPatterns ==
    {<<"database", "exists">>, <<"user", "exists">>,
     <<"can't", "create", "database">>, <<"duplicate", "entry">>}

Returned == [kind |-> "return", value |-> "True", exc |-> "none", msg |-> "none"]

Raised(e, m) == [kind |-> "raise", value |-> "none", exc |-> e, msg |-> m]

\* the case-sensitive variant of the benign test (no .lower())
IsBenign_CaseSensitive(stderr) ==
    \E p \in BenignPatterns : Contains(stderr, p)

\* lines 63-66
IsBenign(stderr) ==
    \E p \in BenignPatterns : Contains(Lower(stderr), p)

\* a try block without the ignore_error_codes branch
RunCommandTry_NoIgnore(popen, exit, stderr, ignore) ==
    IF popen # "ok" THEN Raised(popen, "popen")
    ELSE IF exit # 0
         THEN IF IsBenign(stderr) THEN Returned
              ELSE Raised("RuntimeError", "Command failed")
         ELSE Returned

\* lines 45-76, the body of the try block: Popen may raise; a nonzero exit
\* is benign, ignored, or raises RuntimeError; the function returns True
RunCommandTry(popen, exit, stderr, ignore) ==
    IF popen # "ok" THEN Raised(popen, "popen")
    ELSE IF exit # 0
         THEN IF IsBenign(stderr) THEN Returned
              ELSE IF exit \in ignore THEN Returned
              ELSE Raised("RuntimeError", "Command failed")
         ELSE Returned

\* line 80: f"An unexpected error occurred executing '...': {e}", the
\* message of the wrapper, which ends with the message of the error caught
Unexpected(m) ==
    IF m = "Command failed"
    THEN "An unexpected error occurred executing: Command failed"
    ELSE "An unexpected error occurred executing: popen"

\* lines 45-80: the try block followed by the two except clauses, which turn
\* FileNotFoundError and every other Exception (the RuntimeError of line 72
\* included) into a RuntimeError
RunCommand(popen, exit, stderr, ignore) ==
    LET r == RunCommandTry(popen, exit, stderr, ignore) IN
    IF r.kind = "return" THEN r
    ELSE IF r.exc = "FileNotFoundError"
         THEN Raised("RuntimeError", "Command not found")
         ELSE Raised("RuntimeError", Unexpected(r.msg))


\* --------------------------------------------------------------- the state
VARIABLES
    \* one call of run_command, taken alone
    rcPopen, rcExit, rcStderr, rcIgnore, rcResult,
    \* main(): position, and the exit code of the process (-1: still running)
    pcMain, exitCode,
    \* threading.Event db_ready_event, and the number of set() calls made on it
    db_ready_event, setCalls,
    \* the dict thread_status: a function from the keys written so far
    thread_status,
    \* setup_mysql_thread_target: the name of the thread running it, position,
    \* index of the next statement, the calls made, the exception in flight
    mysqlThreadName, pcMysql, mysqlStep, mysqlLog, mysqlExc,
    \* deploy_codebase_thread_target: position, the commands run, the value
    \* read from thread_status after the wait, the exception in flight
    pcDeploy, deployLog, deployRead, deployExc,
    \* the step of the deployment that raised ("none": no step has)
    deployFailed,
    \* the exit codes seen of the commands the deployment has run after the
    \* wait, by command
    deployExits,
    \* the .env file: its content, the content it had at first, the dict
    \* env_vars, the list new_env_lines last written, the number of merges
    \* done, and the content after the first merge
    envBytes, envInput, env_vars, new_env_lines, mergeCount, envAfterFirst,
    \* the project directory of a repair: it exists, it holds artisan, it
    \* holds .env, .env can be opened for reading, for writing
    fsDir, fsArtisan, envExists, envReadable, envWritable,
    \* the outcome of the last read_env_file call
    readResult,
    \* repair_installation and the functions it calls: position, the password
    \* generated, index of the next statement of repair_mysql_user, the
    \* steps run, the step that failed, the value returned, the exception
    \* in flight, the value finalize_laravel_installation returned,
    \* the last external command run and what it did
    pcRepair, new_password, repairStep, repairLog, repairFailed, repairRet,
    repairExc, finalizeRet, repairLast,
    \* the value repair_mysql_user returned ("none": it has not returned)
    repairMysqlRet,
    \* generate_secure_password: the arguments of the call (none, or the
    \* length) and the password returned, one character per element
    pwArgs, password

rcVars == <<rcPopen, rcExit, rcStderr, rcIgnore, rcResult>>

mainVars == <<pcMain, exitCode>>

gateVars == <<db_ready_event, setCalls, thread_status>>

mysqlVars == <<mysqlThreadName, pcMysql, mysqlStep, mysqlLog, mysqlExc>>

deployVars == <<pcDeploy, deployLog, deployRead, deployExc, deployFailed, deployExits>>

mergeVars == <<envBytes, envInput, env_vars, new_env_lines, mergeCount, envAfterFirst>>

\* the state of the functions that are not part of a new installation's run
fsVars == <<fsDir, fsArtisan, envExists, envReadable, envWritable>>

pwVars == <<pwArgs, password>>

repairVars ==
    <<pcRepair, new_password, repairStep, repairLog, repairFailed, repairRet,
      repairExc, finalizeRet, repairLast, repairMysqlRet>>

otherVars == <<mergeVars, fsVars, pwVars, readResult, repairVars>>

vars == <<rcVars, mainVars, gateVars, mysqlVars, deployVars, otherVars>>

\* ------------------------------------------------------------ dict helpers
\* d[k] = v
DictSet(d, k, v) == [x \in DOMAIN d \cup {k} |-> IF x = k THEN v ELSE d[x]]

\* d.get(k, default)
DictGet(d, k, default) == IF k \in DOMAIN d THEN d[k] ELSE default

\* ----------------------------------------------- names fixed by the source
MysqlThread == "MySQL_Setup_Thread"

CodebaseThread == "Codebase_Deployment_Thread"

\* the five statements of mysql_commands, in list order
MysqlCommands ==
    <<"CREATE DATABASE IF NOT EXISTS", "CREATE USER IF NOT EXISTS",
      "ALTER USER", "GRANT ALL PRIVILEGES", "FLUSH PRIVILEGES">>

\* what one external command can do when a thread target runs it
CommandOutcomes ==
    {[popen |-> "ok", exit |-> 0, stderr |-> <<>>],
     [popen |-> "ok", exit |-> 1, stderr |-> <<"Database", "exists">>],
     [popen |-> "ok", exit |-> 1, stderr |-> <<"denied">>],
     [popen |-> "FileNotFoundError", exit |-> 0, stderr |-> <<>>]}

\* the exit code a call shows to an observer (-1: the process never started)
SeenExit(o) == IF o.popen = "ok" THEN o.exit ELSE -1

PendingResult == [kind |-> "pending", value |-> "none", exc |-> "none", msg |-> "none"]

\* no .env file is being merged
MergeIdle ==
    /\ envBytes = <<>>
    /\ envInput = <<>>
    /\ env_vars = <<>>
    /\ new_env_lines = <<>>
    /\ mergeCount = 0
    /\ envAfterFirst = <<>>

\* the last external command of a repair, when it has run none
NoCommand == [cmd |-> "none", exit |-> 0, stderr |-> <<>>, raised |-> FALSE]

\* the result of a function that has not been called
PendingRead ==
    [kind |-> "pending", exc |-> "none", msg |-> "none", name |-> <<>>,
     user |-> <<>>, host |-> <<>>, port |-> <<>>, env_config |-> <<>>]

\* generate_secure_password is not called on its own
PwIdle ==
    /\ pwArgs = <<>>
    /\ password = <<>>

\* no repair is running
RepairIdle ==
    /\ fsDir = TRUE
    /\ fsArtisan = TRUE
    /\ envExists = TRUE
    /\ envReadable = TRUE
    /\ envWritable = TRUE
    /\ readResult = PendingRead
    /\ pcRepair = "none"
    /\ new_password = <<>>
    /\ repairStep = 1
    /\ repairLog = <<>>
    /\ repairFailed = "none"
    /\ repairRet = "none"
    /\ repairExc = "none"
    /\ finalizeRet = "none"
    /\ repairLast = NoCommand
    /\ repairMysqlRet = "none"

\* ------------------------------------------------- run_command, taken alone
RcIdle ==
    /\ rcPopen = "ok"
    /\ rcExit = 0
    /\ rcStderr = <<>>
    /\ rcIgnore = {}
    /\ rcResult = PendingResult

InstallIdle ==
    /\ pcMain = "none"
    /\ exitCode = -1
    /\ db_ready_event = FALSE
    /\ setCalls = 0
    /\ thread_status = <<>>
    /\ mysqlThreadName = MysqlThread
    /\ pcMysql = "unstarted"
    /\ mysqlStep = 1
    /\ mysqlLog = <<>>
    /\ mysqlExc = "none"
    /\ pcDeploy = "unstarted"
    /\ deployLog = <<>>
    /\ deployRead = "none"
    /\ deployExc = "none"
    /\ deployFailed = "none"
    /\ deployExits = <<>>

InitRun ==
    /\ rcPopen \in PopenOutcomes
    /\ rcExit \in ExitCodes
    /\ rcStderr \in Stderrs
    /\ rcIgnore \in IgnoreChoices
    /\ rcResult = PendingResult
    /\ InstallIdle
    /\ MergeIdle
    /\ RepairIdle
    /\ PwIdle

CallRunCommand ==
    /\ rcResult.kind = "pending"
    /\ rcResult' = RunCommand(rcPopen, rcExit, rcStderr, rcIgnore)
    /\ UNCHANGED <<rcPopen, rcExit, rcStderr, rcIgnore>>
    /\ UNCHANGED <<otherVars, mainVars, gateVars, mysqlVars, deployVars>>

NextRun == CallRunCommand

SpecRun == InitRun /\ [][NextRun]_vars


\* ------------------------------------------- setup_mysql_thread_target
\* lines 86-91: read db_config, take the name of the current thread
MysqlEntry ==
    /\ pcMysql = "entry"
    /\ pcMysql' = "loop"
    /\ UNCHANGED <<mysqlThreadName, mysqlStep, mysqlLog, mysqlExc>>
    /\ UNCHANGED <<otherVars, rcVars, mainVars, gateVars, deployVars>>

\* a loop that goes on with the next statement after one has failed
MysqlRunStep_Continue ==
    /\ pcMysql = "loop"
    /\ mysqlStep <= Len(MysqlCommands)
    /\ \E o \in CommandOutcomes :
         LET r == RunCommand(o.popen, o.exit, o.stderr, {}) IN
         /\ mysqlLog' = Append(mysqlLog,
                [cmd |-> MysqlCommands[mysqlStep], exit |-> SeenExit(o),
                 stderr |-> o.stderr, ok |-> (r.kind = "return")])
         /\ mysqlStep' = mysqlStep + 1
         /\ pcMysql' = IF mysqlStep = Len(MysqlCommands) THEN "set_event" ELSE "loop"
         /\ mysqlExc' = "none"
    /\ UNCHANGED mysqlThreadName
    /\ UNCHANGED <<otherVars, rcVars, mainVars, gateVars, deployVars>>

\* lines 101-107: one turn of the loop, run_command on the next statement;
\* an error leaves the try block with the exception in flight
MysqlRunStep ==
    /\ pcMysql = "loop"
    /\ mysqlStep <= Len(MysqlCommands)
    /\ \E o \in CommandOutcomes :
         LET r == RunCommand(o.popen, o.exit, o.stderr, {}) IN
         /\ mysqlLog' = Append(mysqlLog,
                [cmd |-> MysqlCommands[mysqlStep], exit |-> SeenExit(o),
                 stderr |-> o.stderr, ok |-> (r.kind = "return")])
         /\ IF r.kind = "return"
            THEN /\ mysqlStep' = mysqlStep + 1
                 /\ pcMysql' = IF mysqlStep = Len(MysqlCommands)
                               THEN "set_event" ELSE "loop"
                 /\ mysqlExc' = "none"
            ELSE /\ mysqlStep' = mysqlStep
                 /\ pcMysql' = "except"
                 /\ mysqlExc' = r.exc
    /\ UNCHANGED mysqlThreadName
    /\ UNCHANGED <<otherVars, rcVars, mainVars, gateVars, deployVars>>

\* line 109: db_ready_event.set()
MysqlSetEvent ==
    /\ pcMysql = "set_event"
    /\ db_ready_event' = TRUE
    /\ setCalls' = setCalls + 1
    /\ pcMysql' = "record_true"
    /\ UNCHANGED thread_status
    /\ UNCHANGED <<mysqlThreadName, mysqlStep, mysqlLog, mysqlExc>>
    /\ UNCHANGED <<otherVars, rcVars, mainVars, deployVars>>

\* lines 110-111: thread_status[thread_name] = True
MysqlRecordTrue ==
    /\ pcMysql = "record_true"
    /\ thread_status' = DictSet(thread_status, mysqlThreadName, TRUE)
    /\ pcMysql' = "finally"
    /\ UNCHANGED <<db_ready_event, setCalls>>
    /\ UNCHANGED <<mysqlThreadName, mysqlStep, mysqlLog, mysqlExc>>
    /\ UNCHANGED <<otherVars, rcVars, mainVars, deployVars>>

\* an except clause that records the failure and raises again
MysqlExcept_Reraise ==
    /\ pcMysql = "except"
    /\ thread_status' = DictSet(thread_status, mysqlThreadName, FALSE)
    /\ pcMysql' = "finally"
    /\ UNCHANGED <<db_ready_event, setCalls>>
    /\ UNCHANGED <<mysqlThreadName, mysqlStep, mysqlLog, mysqlExc>>
    /\ UNCHANGED <<otherVars, rcVars, mainVars, deployVars>>

\* lines 113-115: except Exception: thread_status[thread_name] = False
MysqlExcept ==
    /\ pcMysql = "except"
    /\ thread_status' = DictSet(thread_status, mysqlThreadName, FALSE)
    /\ mysqlExc' = "none"
    /\ pcMysql' = "finally"
    /\ UNCHANGED <<db_ready_event, setCalls>>
    /\ UNCHANGED <<mysqlThreadName, mysqlStep, mysqlLog>>
    /\ UNCHANGED <<otherVars, rcVars, mainVars, deployVars>>

\* a finally clause that sets the event without testing it
MysqlFinally_Unconditional ==
    /\ pcMysql = "finally"
    /\ db_ready_event' = TRUE
    /\ setCalls' = setCalls + 1
    /\ pcMysql' = "done"
    /\ UNCHANGED thread_status
    /\ UNCHANGED <<mysqlThreadName, mysqlStep, mysqlLog, mysqlExc>>
    /\ UNCHANGED <<otherVars, rcVars, mainVars, deployVars>>

\* a function without the finally clause
MysqlFinally_NoSet ==
    /\ pcMysql = "finally"
    /\ pcMysql' = "done"
    /\ UNCHANGED gateVars
    /\ UNCHANGED <<mysqlThreadName, mysqlStep, mysqlLog, mysqlExc>>
    /\ UNCHANGED <<otherVars, rcVars, mainVars, deployVars>>

\* lines 116-118: finally: if not db_ready_event.is_set(): db_ready_event.set()
\* and the function ends; an exception still in flight ends the thread
MysqlFinally ==
    /\ pcMysql = "finally"
    /\ IF ~db_ready_event
       THEN /\ db_ready_event' = TRUE
            /\ setCalls' = setCalls + 1
       ELSE UNCHANGED <<db_ready_event, setCalls>>
    /\ pcMysql' = "done"
    /\ UNCHANGED thread_status
    /\ UNCHANGED <<mysqlThreadName, mysqlStep, mysqlLog, mysqlExc>>
    /\ UNCHANGED <<otherVars, rcVars, mainVars, deployVars>>

MysqlNext ==
    \/ MysqlEntry
    \/ MysqlRunStep
    \/ MysqlSetEvent
    \/ MysqlRecordTrue
    \/ MysqlExcept
    \/ MysqlFinally


\* the commands the deployment runs after the wait (lines 266-276)
CredentialDependent == {"php artisan migrate", "php artisan optimize:clear"}

\* the exit codes kept: of the commands that follow the wait, as run_command
\* saw them
ExitsAfter(exits, cmd, o) ==
    IF cmd \in CredentialDependent THEN DictSet(exits, cmd, SeenExit(o)) ELSE exits

\* --------------------------------------- deploy_codebase_thread_target
\* a run_command call whose error is swallowed: the deployment goes on
DeployRun_Swallow(from, cmd, to) ==
    /\ pcDeploy = from
    /\ deployLog' = Append(deployLog, cmd)
    /\ \E o \in CommandOutcomes :
         LET r == RunCommand(o.popen, o.exit, o.stderr, {}) IN
         /\ deployExits' = ExitsAfter(deployExits, cmd, o)
         /\ pcDeploy' = to
         /\ deployExc' = "none"
         /\ deployFailed' = IF r.kind = "return" THEN deployFailed ELSE cmd
    /\ UNCHANGED deployRead
    /\ UNCHANGED <<otherVars, rcVars, mainVars, gateVars, mysqlVars>>

\* one run_command call of the deployment: on success go on at `to`, on an
\* error leave the try block for the except clause of line 281
DeployRun(from, cmd, to) ==
    /\ pcDeploy = from
    /\ deployLog' = Append(deployLog, cmd)
    /\ \E o \in CommandOutcomes :
         LET r == RunCommand(o.popen, o.exit, o.stderr, {}) IN
         /\ deployExits' = ExitsAfter(deployExits, cmd, o)
         /\ IF r.kind = "return"
            THEN /\ pcDeploy' = to
                 /\ deployExc' = "none"
                 /\ deployFailed' = deployFailed
            ELSE /\ pcDeploy' = "except"
                 /\ deployExc' = r.exc
                 /\ deployFailed' = cmd
    /\ UNCHANGED deployRead
    /\ UNCHANGED <<otherVars, rcVars, mainVars, gateVars, mysqlVars>>

\* a step of the deployment that is no command: it succeeds or raises
DeployStep(from, what, to) ==
    /\ pcDeploy = from
    /\ deployLog' = Append(deployLog, what)
    /\ \E ok \in BOOLEAN :
         IF ok
         THEN /\ pcDeploy' = to
              /\ deployExc' = "none"
              /\ deployFailed' = deployFailed
         ELSE /\ pcDeploy' = "except"
              /\ deployExc' = "OSError"
              /\ deployFailed' = what
    /\ UNCHANGED <<deployRead, deployExits>>
    /\ UNCHANGED <<otherVars, rcVars, mainVars, gateVars, mysqlVars>>

\* lines 131-134
DeployCreateProject ==
    DeployRun("create_project", "composer create-project", "chdir")

\* a deployment that merges the .env file without generating the key first
DeployChdir_SkipKey ==
    DeployStep("chdir", "os.chdir", "env_merge")

\* line 137: os.chdir(project_path)
DeployChdir ==
    DeployStep("chdir", "os.chdir", "key_generate")

\* lines 142-146
DeployKeyGenerate ==
    DeployRun("key_generate", "php artisan key:generate", "env_merge")

\* lines 150-231: the .env file is read, merged and written back
DeployEnvMerge ==
    DeployStep("env_merge", "update .env", "jetstream_require")

\* lines 233-237
DeployJetstreamRequire ==
    DeployRun("jetstream_require", "composer require laravel/jetstream",
              "jetstream_install")

\* lines 239-243
DeployJetstreamInstall ==
    DeployRun("jetstream_install", "php artisan jetstream:install", "npm_install")

\* lines 246-250
DeployNpmInstall ==
    DeployRun("npm_install", "npm install", "npm_build")

\* lines 252-256
DeployNpmBuild ==
    DeployRun("npm_build", "npm run build", "wait")

\* a deployment that goes on to the migration without the wait and the test
DeployWait_NoGate ==
    /\ pcDeploy = "wait"
    /\ pcDeploy' = "migrate"
    /\ UNCHANGED <<deployLog, deployRead, deployExc, deployFailed, deployExits>>
    /\ UNCHANGED <<otherVars, rcVars, mainVars, gateVars, mysqlVars>>


\* a wait on an event that resets itself when the waiter is released
DeployWait_AutoReset ==
    /\ pcDeploy = "wait"
    /\ db_ready_event
    /\ db_ready_event' = FALSE
    /\ pcDeploy' = "check"
    /\ UNCHANGED <<setCalls, thread_status>>
    /\ UNCHANGED <<deployLog, deployRead, deployExc, deployFailed, deployExits>>
    /\ UNCHANGED <<otherVars, rcVars, mainVars, mysqlVars>>

\* line 261: db_ready_event.wait() returns once the event is set
DeployWait ==
    /\ pcDeploy = "wait"
    /\ db_ready_event
    /\ pcDeploy' = "check"
    /\ UNCHANGED <<deployLog, deployRead, deployExc, deployFailed, deployExits>>
    /\ UNCHANGED <<otherVars, rcVars, mainVars, gateVars, mysqlVars>>

\* the test of line 263 with True as the default of get
DeployCheckStatus_DefaultTrue ==
    /\ pcDeploy = "check"
    /\ deployRead' = IF MysqlThread \in DOMAIN thread_status
                     THEN (IF thread_status[MysqlThread] THEN "true" ELSE "false")
                     ELSE "absent"
    /\ IF ~DictGet(thread_status, MysqlThread, TRUE)
       THEN /\ pcDeploy' = "except"
            /\ deployExc' = "RuntimeError"
            /\ deployFailed' = "status check"
       ELSE /\ pcDeploy' = "migrate"
            /\ deployExc' = "none"
            /\ deployFailed' = deployFailed
    /\ UNCHANGED <<deployLog, deployExits>>
    /\ UNCHANGED <<otherVars, rcVars, mainVars, gateVars, mysqlVars>>

\* a deployment that reads the status and goes on whatever it is
DeployCheckStatus_NoRaise ==
    /\ pcDeploy = "check"
    /\ deployRead' = IF MysqlThread \in DOMAIN thread_status
                     THEN (IF thread_status[MysqlThread] THEN "true" ELSE "false")
                     ELSE "absent"
    /\ pcDeploy' = "migrate"
    /\ UNCHANGED <<deployLog, deployExc, deployFailed, deployExits>>
    /\ UNCHANGED <<otherVars, rcVars, mainVars, gateVars, mysqlVars>>

\* lines 263-264: if not thread_status.get('MySQL_Setup_Thread', False): raise
DeployCheckStatus ==
    /\ pcDeploy = "check"
    /\ deployRead' = IF MysqlThread \in DOMAIN thread_status
                     THEN (IF thread_status[MysqlThread] THEN "true" ELSE "false")
                     ELSE "absent"
    /\ IF ~DictGet(thread_status, MysqlThread, FALSE)
       THEN /\ pcDeploy' = "except"
            /\ deployExc' = "RuntimeError"
            /\ deployFailed' = "status check"
       ELSE /\ pcDeploy' = "migrate"
            /\ deployExc' = "none"
            /\ deployFailed' = deployFailed
    /\ UNCHANGED <<deployLog, deployExits>>
    /\ UNCHANGED <<otherVars, rcVars, mainVars, gateVars, mysqlVars>>

\* lines 266-270
DeployMigrate ==
    DeployRun("migrate", "php artisan migrate", "optimize_clear")

\* lines 272-276
DeployOptimizeClear ==
    DeployRun("optimize_clear", "php artisan optimize:clear", "record_true")

\* lines 278-279: thread_status[thread_name] = True, and the function ends;
\* thread_name (line 127) is the name main() gives the thread at line 675
DeployRecordTrue ==
    /\ pcDeploy = "record_true"
    /\ thread_status' = DictSet(thread_status, CodebaseThread, TRUE)
    /\ pcDeploy' = "done"
    /\ UNCHANGED <<db_ready_event, setCalls>>
    /\ UNCHANGED <<deployLog, deployRead, deployExc, deployFailed, deployExits>>
    /\ UNCHANGED <<otherVars, rcVars, mainVars, mysqlVars>>

\* an except clause that records the failure under the provisioner's key
DeployExcept_WrongKey ==
    /\ pcDeploy = "except"
    /\ thread_status' = DictSet(thread_status, MysqlThread, FALSE)
    /\ deployExc' = "none"
    /\ pcDeploy' = "done"
    /\ UNCHANGED <<db_ready_event, setCalls>>
    /\ UNCHANGED <<deployLog, deployRead, deployFailed, deployExits>>
    /\ UNCHANGED <<otherVars, rcVars, mainVars, mysqlVars>>

\* lines 281-283: except Exception: thread_status[thread_name] = False
DeployExcept ==
    /\ pcDeploy = "except"
    /\ thread_status' = DictSet(thread_status, CodebaseThread, FALSE)
    /\ deployExc' = "none"
    /\ pcDeploy' = "done"
    /\ UNCHANGED <<db_ready_event, setCalls>>
    /\ UNCHANGED <<deployLog, deployRead, deployFailed, deployExits>>
    /\ UNCHANGED <<otherVars, rcVars, mainVars, mysqlVars>>

DeployNext ==
    \/ DeployCreateProject
    \/ DeployChdir
    \/ DeployKeyGenerate
    \/ DeployEnvMerge
    \/ DeployJetstreamRequire
    \/ DeployJetstreamInstall
    \/ DeployNpmInstall
    \/ DeployNpmBuild
    \/ DeployWait
    \/ DeployCheckStatus
    \/ DeployMigrate
    \/ DeployOptimizeClear
    \/ DeployRecordTrue
    \/ DeployExcept

\* ------------------------------------------------------------------ main()
\* line 679: mysql_thread.start()
MainStartMysql ==
    /\ pcMain = "start_mysql"
    /\ pcMysql = "unstarted"
    /\ pcMysql' = "entry"
    /\ pcMain' = "start_codebase"
    /\ UNCHANGED exitCode
    /\ UNCHANGED <<mysqlThreadName, mysqlStep, mysqlLog, mysqlExc>>
    /\ UNCHANGED <<otherVars, rcVars, gateVars, deployVars>>

\* line 680: codebase_thread.start()
MainStartCodebase ==
    /\ pcMain = "start_codebase"
    /\ pcDeploy = "unstarted"
    /\ pcDeploy' = "create_project"
    /\ pcMain' = "join_mysql"
    /\ UNCHANGED exitCode
    /\ UNCHANGED <<deployLog, deployRead, deployExc, deployFailed, deployExits>>
    /\ UNCHANGED <<otherVars, rcVars, gateVars, mysqlVars>>

\* line 682: mysql_thread.join() returns when the thread has ended
MainJoinMysql ==
    /\ pcMain = "join_mysql"
    /\ pcMysql = "done"
    /\ pcMain' = "join_codebase"
    /\ UNCHANGED exitCode
    /\ UNCHANGED <<otherVars, rcVars, gateVars, mysqlVars, deployVars>>

\* a main that does not join the deployment thread
MainJoinCodebase_NoJoin ==
    /\ pcMain = "join_codebase"
    /\ pcMain' = "evaluate"
    /\ UNCHANGED exitCode
    /\ UNCHANGED <<otherVars, rcVars, gateVars, mysqlVars, deployVars>>

\* line 683: codebase_thread.join()
MainJoinCodebase ==
    /\ pcMain = "join_codebase"
    /\ pcDeploy = "done"
    /\ pcMain' = "evaluate"
    /\ UNCHANGED exitCode
    /\ UNCHANGED <<otherVars, rcVars, gateVars, mysqlVars, deployVars>>

\* line 685
OverallSuccess ==
    /\ DictGet(thread_status, "MySQL_Setup_Thread", FALSE)
    /\ DictGet(thread_status, "Codebase_Deployment_Thread", FALSE)

\* lines 685-716: sys.exit(1) on failure, else main returns (exit code 0)
MainEvaluate ==
    /\ pcMain = "evaluate"
    /\ exitCode' = IF ~OverallSuccess THEN 1 ELSE 0
    /\ pcMain' = "exit"
    /\ UNCHANGED <<otherVars, rcVars, gateVars, mysqlVars, deployVars>>

MainNext ==
    \/ MainStartMysql
    \/ MainStartCodebase
    \/ MainJoinMysql
    \/ MainJoinCodebase
    \/ MainEvaluate

\* lines 664-677: the event, the empty dict and the two named threads
Init ==
    /\ RcIdle
    /\ MergeIdle
    /\ RepairIdle
    /\ PwIdle
    /\ pcMain = "start_mysql"
    /\ exitCode = -1
    /\ db_ready_event = FALSE
    /\ setCalls = 0
    /\ thread_status = <<>>
    /\ mysqlThreadName = "MySQL_Setup_Thread"
    /\ pcMysql = "unstarted"
    /\ mysqlStep = 1
    /\ mysqlLog = <<>>
    /\ mysqlExc = "none"
    /\ pcDeploy = "unstarted"
    /\ deployLog = <<>>
    /\ deployRead = "none"
    /\ deployExc = "none"
    /\ deployFailed = "none"
    /\ deployExits = <<>>

Next ==
    \/ MainNext
    \/ MysqlNext
    \/ DeployNext

Spec == Init /\ [][Next]_vars

\* the two threads and main are scheduled by the operating system: each of
\* them that can take a step eventually takes one
FairSpec ==
    /\ Init
    /\ [][Next]_vars
    /\ WF_vars(MainNext)
    /\ WF_vars(MysqlNext)
    /\ WF_vars(DeployNext)


\* ------------------- setup_mysql_thread_target called on a thread of any name
\* the names a thread running the function can have: the one main() gives
\* its thread, and the one of the thread the unit tests call it on
ThreadNames == {"MySQL_Setup_Thread", "MainThread"}

\* the function called directly, as test_mysql_setup_thread_success does
InitDirect ==
    /\ RcIdle
    /\ MergeIdle
    /\ RepairIdle
    /\ PwIdle
    /\ pcMain = "none"
    /\ exitCode = -1
    /\ db_ready_event = FALSE
    /\ setCalls = 0
    /\ thread_status = <<>>
    /\ mysqlThreadName \in ThreadNames
    /\ pcMysql = "entry"
    /\ mysqlStep = 1
    /\ mysqlLog = <<>>
    /\ mysqlExc = "none"
    /\ pcDeploy = "unstarted"
    /\ deployLog = <<>>
    /\ deployRead = "none"
    /\ deployExc = "none"
    /\ deployFailed = "none"
    /\ deployExits = <<>>

NextDirect == MysqlNext

SpecDirect == InitDirect /\ [][NextDirect]_vars

\* ------------------------------------------------- the .env merge
\* A text is a sequence of tokens: a key, "=", a value word, "#", a blank
\* " " or the line end "\n". A file is the text of its whole content.

\* most lines of a drawn .env file
MaxLines == 3

\* the characters str.strip() removes
Whitespace == {" ", "\n"}

\* s.startswith(p)
StartsWith(s, p) == Len(s) >= Len(p) /\ SubSeq(s, 1, Len(p)) = p

\* s.endswith('\n')
EndsWithNewline(s) == Len(s) >= 1 /\ s[Len(s)] = "\n"

\* str.strip()
Strip(s) ==
    LET keep == {i \in 1..Len(s) : s[i] \notin Whitespace} IN
    IF keep = {} THEN <<>>
    ELSE LET lo == CHOOSE i \in keep : \A j \in keep : i <= j
             hi == CHOOSE i \in keep : \A j \in keep : i >= j
         IN SubSeq(s, lo, hi)

\* f.readlines(): the lines of a text, each with its line end
RECURSIVE ReadLines(_)
ReadLines(b) ==
    IF b = <<>> THEN <<>>
    ELSE LET ends == {i \in 1..Len(b) : b[i] = "\n"} IN
         IF ends = {} THEN <<b>>
         ELSE LET n == CHOOSE i \in ends : \A j \in ends : i <= j
              IN <<SubSeq(b, 1, n)>> \o ReadLines(SubSeq(b, n + 1, Len(b)))

\* f.writelines(lines): the lines one after the other
RECURSIVE WriteLines(_)
WriteLines(ls) ==
    IF ls = <<>> THEN <<>> ELSE Head(ls) \o WriteLines(Tail(ls))

\* the dict env_vars with line 154 in force: "APP_KEY": ""
EnvVars_WithAppKey(db_pass) ==
    <<[key |-> "APP_KEY", value |-> <<>>],
      [key |-> "DB_PORT", value |-> <<"3306">>],
      [key |-> "DB_PASSWORD", value |-> db_pass],
      [key |-> "AWS_BUCKET", value |-> <<>>]>>

\* lines 151-199, the dict env_vars in insertion order; of its 46 entries the
\* model keeps a constant one, the one set from db_config['pass'] and one
\* whose value is empty; APP_KEY is not a key of it (line 154 is a comment)
EnvVars(db_pass) ==
    <<[key |-> "DB_PORT", value |-> <<"3306">>],
      [key |-> "DB_PASSWORD", value |-> db_pass],
      [key |-> "AWS_BUCKET", value |-> <<>>]>>

\* f"{key}={value}\n"
FormatLine(e) == <<e.key, "=">> \o e.value \o <<"\n">>

\* lines 208-214: the first key of env_vars, in dict order, with
\* line.strip().startswith(f"{key}="); 0 when the inner loop ends unmatched
MatchKey(line, env) ==
    LET hits == {k \in 1..Len(env) : StartsWith(Strip(line), <<env[k].key, "=">>)} IN
    IF hits = {} THEN 0 ELSE CHOOSE k \in hits : \A j \in hits : k <= j

\* a loop body that does not remember the key it has updated
MergeLine_Forget(st, line, env) ==
    LET k == MatchKey(line, env)
        new1 == IF k > 0 THEN Append(st.new, FormatLine(env[k])) ELSE st.new
    IN IF StartsWith(Strip(line), <<"APP_KEY", "=">>) /\ "APP_KEY" \notin st.updated
       THEN [new |-> Append(new1, line), updated |-> st.updated \cup {"APP_KEY"}]
       ELSE IF k = 0
            THEN [new |-> Append(new1, line), updated |-> st.updated]
            ELSE [new |-> new1, updated |-> st.updated]

\* a loop body that writes the matched line back with the new value put
\* after the text the line had
MergeLine_KeepOld(st, line, env) ==
    LET k == MatchKey(line, env)
        new1 == IF k > 0 THEN Append(st.new, Strip(line) \o env[k].value \o <<"\n">>)
                ELSE st.new
        upd1 == IF k > 0 THEN st.updated \cup {env[k].key} ELSE st.updated
    IN IF StartsWith(Strip(line), <<"APP_KEY", "=">>) /\ "APP_KEY" \notin upd1
       THEN [new |-> Append(new1, line), updated |-> upd1 \cup {"APP_KEY"}]
       ELSE IF k = 0
            THEN [new |-> Append(new1, line), updated |-> upd1]
            ELSE [new |-> new1, updated |-> upd1]

\* a loop body that strips the lines it copies
MergeLine_StripCopy(st, line, env) ==
    LET k == MatchKey(line, env)
        new1 == IF k > 0 THEN Append(st.new, FormatLine(env[k])) ELSE st.new
        upd1 == IF k > 0 THEN st.updated \cup {env[k].key} ELSE st.updated
    IN IF StartsWith(Strip(line), <<"APP_KEY", "=">>) /\ "APP_KEY" \notin upd1
       THEN [new |-> Append(new1, line), updated |-> upd1 \cup {"APP_KEY"}]
       ELSE IF k = 0
            THEN [new |-> Append(new1, Strip(line) \o <<"\n">>), updated |-> upd1]
            ELSE [new |-> new1, updated |-> upd1]

\* lines 206-220, the body of `for line in lines`: st holds new_env_lines
\* and updated_keys
MergeLine(st, line, env) ==
    LET k == MatchKey(line, env)
        new1 == IF k > 0 THEN Append(st.new, FormatLine(env[k])) ELSE st.new
        upd1 == IF k > 0 THEN st.updated \cup {env[k].key} ELSE st.updated
    IN IF StartsWith(Strip(line), <<"APP_KEY", "=">>) /\ "APP_KEY" \notin upd1
       THEN [new |-> Append(new1, line), updated |-> upd1 \cup {"APP_KEY"}]
       ELSE IF k = 0
            THEN [new |-> Append(new1, line), updated |-> upd1]
            ELSE [new |-> new1, updated |-> upd1]

\* lines 204-220: the loop over the lines read
RECURSIVE MergeLines(_, _, _)
MergeLines(st, lines, env) ==
    IF lines = <<>> THEN st
    ELSE MergeLines(MergeLine(st, Head(lines), env), Tail(lines), env)

\* an appending loop without the test of the last line's end
AppendMissingKey_NoNewline(new, e, updated) ==
    IF e.key \notin updated
    THEN Append(new, FormatLine(e))
    ELSE new

\* lines 224-227, the body of `for key, value in env_vars.items()`
AppendMissingKey(new, e, updated) ==
    IF e.key \notin updated
    THEN LET sep == IF new # <<>> /\ ~EndsWithNewline(new[Len(new)])
                    THEN Append(new, <<"\n">>) ELSE new
         IN Append(sep, FormatLine(e))
    ELSE new

\* lines 223-227: the loop over env_vars
RECURSIVE AppendMissing(_, _, _)
AppendMissing(new, env, updated) ==
    IF env = <<>> THEN new
    ELSE AppendMissing(AppendMissingKey(new, Head(env), updated), Tail(env), updated)

\* lines 204-227: new_env_lines, from the lines read and env_vars
MergeEnv(lines, env) ==
    LET st == MergeLines([new |-> <<>>, updated |-> {}], lines, env)
    IN AppendMissing(st.new, env, st.updated)

\* the lines a drawn .env file is made of, without their line end
LineShapes ==
    {<<"DB_PORT", "=", "3306">>,
     <<"DB_PORT", "=", "old">>,
     <<" ", "DB_PASSWORD", "=", "old">>,
     <<"AWS_BUCKET", "=">>,
     <<"APP_KEY", "=", "base64">>,
     <<"APP_KEY", "=">>,
     <<"#", "DB_PORT", "=", "old">>,
     <<>>,
     <<"FOO", "=", "old", " ">>,
     <<"DB_PORT">>}

\* the .env files drawn: up to MaxLines lines, the last with or without its
\* line end (an empty last line without line end is no line)
EnvFiles ==
    {WriteLines([i \in 1..Len(f) |->
                    IF i < Len(f) \/ last THEN f[i] \o <<"\n">> ELSE f[i]]) :
        f \in UNION {[1..n -> LineShapes] : n \in 0..MaxLines}, last \in BOOLEAN}

\* the values of db_config['pass']
Passwords == {<<"s3cret">>, <<"old">>}

\* lines 150-199: the file as the scaffold left it, and env_vars built
InitMerge ==
    /\ RcIdle
    /\ InstallIdle
    /\ RepairIdle
    /\ PwIdle
    /\ envBytes \in EnvFiles
    /\ envInput = envBytes
    /\ env_vars \in {EnvVars(p) : p \in Passwords}
    /\ new_env_lines = <<>>
    /\ mergeCount = 0
    /\ envAfterFirst = <<>>

\* lines 201-230: read the file, merge, write it back; run a second time on
\* its own output, the values of env_vars being the same
MergeEnvFile ==
    /\ mergeCount < 2
    /\ LET out == MergeEnv(ReadLines(envBytes), env_vars) IN
         /\ new_env_lines' = out
         /\ envBytes' = WriteLines(out)
         /\ envAfterFirst' = IF mergeCount = 0 THEN WriteLines(out) ELSE envAfterFirst
    /\ mergeCount' = mergeCount + 1
    /\ UNCHANGED <<envInput, env_vars>>
    /\ UNCHANGED <<fsVars, pwVars, readResult, repairVars>>
    /\ UNCHANGED <<rcVars, mainVars, gateVars, mysqlVars, deployVars>>

NextMerge == MergeEnvFile

SpecMerge == InitMerge /\ [][NextMerge]_vars

\* ================================================================== claims
MysqlFailed == \E i \in DOMAIN mysqlLog : ~mysqlLog[i].ok

\* C1: in every interleaving, a step in which the deployment runs
\* `php artisan migrate` or `php artisan optimize:clear` is taken only when
\* the provisioning task has already set db_ready_event.
C1_MigrateOnlyAfterGate ==
    [][(/\ Len(deployLog') = Len(deployLog) + 1
        /\ deployLog'[Len(deployLog')] \in CredentialDependent)
       => (db_ready_event /\ setCalls >= 1)]_vars

C1_Witness ==
    /\ \E i \in DOMAIN deployLog : deployLog[i] = "php artisan migrate"
    /\ \E i \in DOMAIN deployLog : deployLog[i] = "php artisan optimize:clear"

\* C2: the provisioning task calls set() on the gate at most once, and when
\* setup_mysql_thread_target has returned, on whichever path, the gate is
\* signaled and set() was called exactly once.
C2_GateSignaledExactlyOnce ==
    /\ setCalls <= 1
    /\ pcMysql = "done" => (db_ready_event /\ setCalls = 1)

C2_Witness ==
    /\ pcMysql = "done"
    /\ Len(mysqlLog) = 3
    /\ ~mysqlLog[3].ok
    /\ mysqlLog[3].exit = -1

\* C3: whenever the gate is signaled, the registry already holds the
\* provisioning task's outcome.
C3_StatusRecordedBeforeGate ==
    db_ready_event => "MySQL_Setup_Thread" \in DOMAIN thread_status

\* C4: if the value the deployment reads from the registry after the wait is
\* false or absent, it raises, never runs migration or the optimization
\* reset, and ends with its own status recorded as false.
C4_FailedUpstreamAbortsDeployment ==
    deployRead \in {"false", "absent"} =>
        /\ pcDeploy \in {"except", "done"}
        /\ pcDeploy = "except" => deployExc = "RuntimeError"
        /\ \A i \in DOMAIN deployLog : deployLog[i] \notin CredentialDependent
        /\ pcDeploy = "done" =>
              /\ "Codebase_Deployment_Thread" \in DOMAIN thread_status
              /\ thread_status["Codebase_Deployment_Thread"] = FALSE

C4_Witness ==
    /\ deployRead = "false"
    /\ pcDeploy = "done"

\* C5: once a provisioning step has raised, the function is in its except
\* clause or past it; past it, the registry holds false for the task and no
\* exception is in flight, so the function returns normally.
C5_FatalCaughtAndRecorded ==
    MysqlFailed =>
        /\ pcMysql \in {"except", "finally", "done"}
        /\ pcMysql \in {"finally", "done"} =>
              /\ mysqlThreadName \in DOMAIN thread_status
              /\ thread_status[mysqlThreadName] = FALSE
              /\ mysqlExc = "none"

C5_Witness ==
    /\ pcMysql = "done"
    /\ \E i \in DOMAIN mysqlLog : ~mysqlLog[i].ok /\ mysqlLog[i].exit = 1

\* C6: whatever the name of the thread that runs the provisioning function,
\* after all five steps succeeded the key 'MySQL_Setup_Thread' maps to true
\* and the gate is signaled.
C6_FixedRegistryKey ==
    (/\ pcMysql = "done"
     /\ Len(mysqlLog) = 5
     /\ \A i \in DOMAIN mysqlLog : mysqlLog[i].ok)
    => /\ "MySQL_Setup_Thread" \in DOMAIN thread_status
       /\ thread_status["MySQL_Setup_Thread"] = TRUE
       /\ db_ready_event

\* C7: a provisioning step that exits nonzero with 'database exists' in its
\* lower-cased stderr returned success and the loop went on past it; and when
\* the function has ended with no step having raised, all five steps ran and
\* the recorded status is true.
C7_BenignCountsAsSuccess ==
    \A i \in DOMAIN mysqlLog :
        (/\ mysqlLog[i].exit > 0
         /\ Contains(Lower(mysqlLog[i].stderr), <<"database", "exists">>))
        => /\ mysqlLog[i].ok
           /\ mysqlStep > i
           /\ (pcMysql = "done" /\ ~MysqlFailed) =>
                 /\ Len(mysqlLog) = 5
                 /\ mysqlThreadName \in DOMAIN thread_status
                 /\ thread_status[mysqlThreadName] = TRUE

C7_Witness ==
    /\ pcMysql = "done"
    /\ Len(mysqlLog) = 5
    /\ mysqlLog[3].exit = 1
    /\ mysqlLog[3].ok
    /\ ~MysqlFailed

\* C8: run_command returns exactly when the exit code is 0, or it is nonzero
\* and the lower-cased stderr contains one of the four benign patterns, or it
\* is nonzero and in ignore_error_codes; what it returns is True; in every
\* other case it raises.
C8_RunCommandClassification ==
    rcResult.kind # "pending" =>
        /\ rcResult.kind \in {"return", "raise"}
        /\ rcResult.kind = "return" <=>
              /\ rcPopen = "ok"
              /\ \/ rcExit = 0
                 \/ /\ rcExit # 0
                    /\ \/ Contains(Lower(rcStderr), <<"database", "exists">>)
                       \/ Contains(Lower(rcStderr), <<"user", "exists">>)
                       \/ Contains(Lower(rcStderr), <<"can't", "create", "database">>)
                       \/ Contains(Lower(rcStderr), <<"duplicate", "entry">>)
                 \/ /\ rcExit # 0
                    /\ rcExit \in rcIgnore
        /\ rcResult.kind = "return" => rcResult.value = "True"
        /\ rcResult.kind = "raise" => rcResult.exc = "RuntimeError"

C8_Witness ==
    /\ rcResult.kind = "return"
    /\ rcExit # 0
    /\ rcExit \in rcIgnore
    /\ rcStderr = <<"denied">>

\* C9: main evaluates the result only when both threads have ended, and the
\* process exits with 0 exactly when the registry maps both thread names to
\* true, and with 1 otherwise.
C9_OverallResultAfterJoin ==
    /\ pcMain \in {"evaluate", "exit"} => (pcMysql = "done" /\ pcDeploy = "done")
    /\ pcMain # "exit" => exitCode = -1
    /\ pcMain = "exit" =>
          /\ exitCode \in {0, 1}
          /\ exitCode = 0 <=>
                /\ "MySQL_Setup_Thread" \in DOMAIN thread_status
                /\ thread_status["MySQL_Setup_Thread"] = TRUE
                /\ "Codebase_Deployment_Thread" \in DOMAIN thread_status
                /\ thread_status["Codebase_Deployment_Thread"] = TRUE

C9_Witness ==
    /\ pcMain = "exit"
    /\ exitCode = 1
    /\ thread_status["MySQL_Setup_Thread"] = TRUE
    /\ thread_status["Codebase_Deployment_Thread"] = FALSE

\* C10: under fair scheduling of the threads, a deployment waiting on the
\* gate always eventually leaves the wait, and eventually both tasks have
\* ended, whether provisioning succeeds or fails.
C10_NoDeadlock ==
    /\ (pcDeploy = "wait") ~> (pcDeploy # "wait")
    /\ <>(pcMysql = "done" /\ pcDeploy = "done")

C10_Witness ==
    /\ pcDeploy = "check"
    /\ pcMysql = "done"
    /\ MysqlFailed


\* ------------------------------------------------ claims on the .env merge
\* the line names the key: stripped, it begins with `<key>=`
NamesKey(line, key) == StartsWith(Strip(line), <<key, "=">>)

ManagedKeys == {env_vars[k].key : k \in DOMAIN env_vars}

IsUnmanaged(line) == \A key \in ManagedKeys : ~NamesKey(line, key)

\* the lines of the file as it was before the merge
InputLines == ReadLines(envInput)

\* the places of the lines of ls that name the key
LinesNaming(ls, key) == {i \in DOMAIN ls : NamesKey(ls[i], key)}

\* C11: merging the output of a merge again, with the same env_vars, leaves
\* the file's content as the first merge wrote it.
C11_MergeIdempotent ==
    mergeCount = 2 => envBytes = envAfterFirst

C11_Witness ==
    /\ mergeCount = 2
    /\ envAfterFirst # envInput
    /\ Len(InputLines) >= 2

\* C12: after the merge every managed key is named by exactly one line of
\* the file, however often the input named it.
C12_EachManagedKeyOnce ==
    mergeCount >= 1 =>
        \A key \in ManagedKeys :
            Cardinality(LinesNaming(ReadLines(envBytes), key)) = 1

\* C13: every input line that names no managed key is, unchanged, the line
\* at the same place of the list the merge writes, so these lines keep their
\* content and their order.
C13_UnmanagedLinesUntouched ==
    mergeCount = 1 =>
        /\ Len(new_env_lines) >= Len(InputLines)
        /\ \A i \in DOMAIN InputLines :
              IsUnmanaged(InputLines[i]) => new_env_lines[i] = InputLines[i]

C13_Witness ==
    /\ mergeCount = 1
    /\ \E i, j \in DOMAIN InputLines :
          /\ i < j
          /\ InputLines[i] = <<"FOO", "=", "old", " ", "\n">>
          /\ InputLines[j] = <<"#", "DB_PORT", "=", "old", "\n">>
    /\ \E i \in DOMAIN InputLines : ~IsUnmanaged(InputLines[i])

\* C14: a line that names a managed key is replaced, at its place, by
\* `<key>=<managed value>`; the key is not appended after the original lines;
\* and a key named by one input line is named by one line of the result (so
\* DB_PORT=3306 stays the single DB_PORT line, where it was).
C14_ManagedKeyKeepsPosition ==
    mergeCount = 1 =>
        \A k \in DOMAIN env_vars :
            LET key == env_vars[k].key
                at == LinesNaming(InputLines, key)
            IN at # {} =>
                 /\ \A i \in at :
                       new_env_lines[i] = <<key, "=">> \o env_vars[k].value \o <<"\n">>
                 /\ \A i \in LinesNaming(new_env_lines, key) : i <= Len(InputLines)
                 /\ Cardinality(at) = 1 =>
                       LinesNaming(new_env_lines, key) = at

C14_Witness ==
    /\ mergeCount = 1
    /\ Len(InputLines) = 3
    /\ InputLines[2] = <<"DB_PORT", "=", "3306", "\n">>
    /\ new_env_lines[2] = InputLines[2]
    /\ LinesNaming(InputLines, "DB_PORT") = {2}

\* C15: a line APP_KEY=<value> of the input is, unchanged, the line at the
\* same place of the result, and the result has no more APP_KEY lines than
\* the input.
C15_AppKeyPreserved ==
    mergeCount = 1 =>
        /\ \A i \in LinesNaming(InputLines, "APP_KEY") :
              new_env_lines[i] = InputLines[i]
        /\ LinesNaming(InputLines, "APP_KEY") # {} =>
              LinesNaming(new_env_lines, "APP_KEY") = LinesNaming(InputLines, "APP_KEY")

C15_Witness ==
    /\ mergeCount = 1
    /\ \E i \in DOMAIN InputLines : InputLines[i] = <<"APP_KEY", "=", "base64", "\n">>
    /\ \E i \in DOMAIN InputLines : ~IsUnmanaged(InputLines[i])

\* the entries of env_vars whose key no input line names, in dict order
MissingEntries ==
    LET Absent(e) == LinesNaming(InputLines, e.key) = {}
    IN SelectSeq(env_vars, Absent)

\* C16: the file written has, after as many lines as the input had, one
\* line `<key>=<value>` for each managed key the input did not name, in the
\* order of env_vars, each a line of its own (also when the input's last line
\* had no line end).
C16_MissingKeysAppended ==
    mergeCount = 1 =>
        LET out == ReadLines(envBytes) IN
        /\ Len(out) = Len(InputLines) + Len(MissingEntries)
        /\ \A j \in DOMAIN MissingEntries :
              out[Len(InputLines) + j] =
                  <<MissingEntries[j].key, "=">> \o MissingEntries[j].value \o <<"\n">>

C16_Witness ==
    /\ mergeCount = 1
    /\ envInput # <<>>
    /\ ~EndsWithNewline(envInput)
    /\ IsUnmanaged(InputLines[Len(InputLines)])
    /\ Len(MissingEntries) >= 2


\* C17: once a step of the deployment has raised (a command that
\* run_command reports as failed, os.chdir, the .env merge or the status
\* test), that step is the last one executed, the deployment is in its
\* except clause or has ended, and when it has ended its recorded status is
\* false.
C17_FailureAbortsDeployment ==
    deployFailed # "none" =>
        /\ pcDeploy \in {"except", "done"}
        /\ deployLog # <<>>
        /\ deployLog[Len(deployLog)] =
              (IF deployFailed = "status check" THEN "npm run build" ELSE deployFailed)
        /\ pcDeploy = "done" =>
              /\ "Codebase_Deployment_Thread" \in DOMAIN thread_status
              /\ thread_status["Codebase_Deployment_Thread"] = FALSE

C17_Witness ==
    /\ pcDeploy = "done"
    /\ deployFailed = "update .env"
    /\ Len(deployLog) = 4


\* ------------------------------------------------------------ read_env_file
\* None, as the value of a key the dict does not have
NoneValue == <<"<None>">>

\* `not v` for a value that is a string or None
Falsy(v) == v = NoneValue \/ v = <<>>

\* the characters value.strip('\'"') removes
Quotes == {"'", "\""}

\* value.strip('\'"')
StripQuotes(s) ==
    LET keep == {i \in 1..Len(s) : s[i] \notin Quotes} IN
    IF keep = {} THEN <<>>
    ELSE LET lo == CHOOSE i \in keep : \A j \in keep : i <= j
             hi == CHOOSE i \in keep : \A j \in keep : i >= j
         IN SubSeq(s, lo, hi)

\* lines 303-304: the stripped line is not empty, no comment and has an '='
IsAssignment(t) ==
    /\ t # <<>>
    /\ t[1] # "#"
    /\ \E i \in 1..Len(t) : t[i] = "="

\* lines 305-308: line.split('=', 1), the quotes stripped from the value
ParseAssignment(t) ==
    LET n == CHOOSE i \in 1..Len(t) :
                 t[i] = "=" /\ \A j \in 1..Len(t) : t[j] = "=" => i <= j
    IN [key |-> SubSeq(t, 1, n - 1), value |-> StripQuotes(SubSeq(t, n + 1, Len(t)))]

\* lines 302-308: the loop over the lines of the file fills env_config
RECURSIVE ParseEnvLines(_, _)
ParseEnvLines(cfg, lines) ==
    IF lines = <<>> THEN cfg
    ELSE LET t == Strip(Head(lines)) IN
         IF IsAssignment(t)
         THEN LET e == ParseAssignment(t)
              IN ParseEnvLines(DictSet(cfg, e.key, e.value), Tail(lines))
         ELSE ParseEnvLines(cfg, Tail(lines))

ReadRaised(e, m) ==
    [kind |-> "raise", exc |-> e, msg |-> m, name |-> <<>>, user |-> <<>>,
     host |-> <<>>, port |-> <<>>, env_config |-> <<>>]

\* lines 300-322, the body of the try block: open, parse, build db_config,
\* validate the required fields
ReadEnvFileTry(readable, bytes) ==
    IF ~readable THEN ReadRaised("OSError", "open")
    ELSE LET cfg == ParseEnvLines(<<>>, ReadLines(bytes))
             name == DictGet(cfg, <<"DB_DATABASE">>, NoneValue)
             user == DictGet(cfg, <<"DB_USERNAME">>, NoneValue)
         IN IF Falsy(name) \/ Falsy(user)
            THEN ReadRaised("ValueError", "Missing DB_DATABASE or DB_USERNAME")
            ELSE [kind |-> "return", exc |-> "none", msg |-> "none",
                  name |-> name, user |-> user,
                  host |-> DictGet(cfg, <<"DB_HOST">>, <<"127.0.0.1">>),
                  port |-> DictGet(cfg, <<"DB_PORT">>, <<"3306">>),
                  env_config |-> cfg]

\* lines 288-325: FileNotFoundError when there is no .env (line 296); every
\* exception of the try block, the ValueError of line 320 included, is
\* raised again as RuntimeError (lines 324-325)
ReadEnvFile(exists, readable, bytes) ==
    IF ~exists THEN ReadRaised("FileNotFoundError", ".env file not found")
    ELSE LET r == ReadEnvFileTry(readable, bytes) IN
         IF r.kind = "return" THEN r
         ELSE ReadRaised("RuntimeError", "Failed to read .env file")

\* the lines a drawn .env file of an installed project is made of
RepairLineShapes ==
    {<<"DB_DATABASE", "=", "app">>,
     <<"DB_DATABASE", "=">>,
     <<"DB_DATABASE", "=", "'", "'">>,
     <<"DB_USERNAME", "=", "bob">>,
     <<" ", "DB_USERNAME", "=", "\"", "bob", "\"">>,
     <<"#", "DB_USERNAME", "=", "bob">>,
     <<"DB_PASSWORD", "=", "old">>,
     <<"DB_DATABASE">>,
     <<>>}

ReadEnvFiles ==
    {WriteLines([i \in 1..Len(f) |->
                    IF i < Len(f) \/ last THEN f[i] \o <<"\n">> ELSE f[i]]) :
        f \in UNION {[1..n -> RepairLineShapes] : n \in 0..MaxLines}, last \in BOOLEAN}

\* no merge is running on the .env file
MergeProcIdle ==
    /\ env_vars = <<>>
    /\ new_env_lines = <<>>
    /\ mergeCount = 0
    /\ envAfterFirst = <<>>

\* repair_installation is not running
RepairProcIdle ==
    /\ pcRepair = "none"
    /\ new_password = <<>>
    /\ repairStep = 1
    /\ repairLog = <<>>
    /\ repairFailed = "none"
    /\ repairRet = "none"
    /\ repairExc = "none"
    /\ finalizeRet = "none"
    /\ repairLast = NoCommand
    /\ repairMysqlRet = "none"

\* read_env_file called on a project directory
InitReadEnv ==
    /\ RcIdle
    /\ InstallIdle
    /\ MergeProcIdle
    /\ RepairProcIdle
    /\ PwIdle
    /\ fsDir = TRUE
    /\ fsArtisan = TRUE
    /\ envExists \in BOOLEAN
    /\ envReadable \in BOOLEAN
    /\ envWritable = TRUE
    /\ envBytes \in (IF envExists THEN ReadEnvFiles ELSE {<<>>})
    /\ envInput = envBytes
    /\ readResult = PendingRead

CallReadEnvFile ==
    /\ readResult.kind = "pending"
    /\ readResult' = ReadEnvFile(envExists, envReadable, envBytes)
    /\ UNCHANGED <<mergeVars, fsVars, pwVars, repairVars>>
    /\ UNCHANGED <<rcVars, mainVars, gateVars, mysqlVars, deployVars>>

NextReadEnv == CallReadEnvFile

SpecReadEnv == InitReadEnv /\ [][NextReadEnv]_vars

\* -------------------------------------------------------- repair_installation
\* the five statements of repair_mysql_user, in list order
RepairMysqlCommands ==
    <<"DROP USER IF EXISTS", "CREATE USER", "ALTER USER", "GRANT ALL PRIVILEGES",
      "FLUSH PRIVILEGES">>

\* what one external command of a repair can do
RepairOutcomes ==
    CommandOutcomes \cup {[popen |-> "ok", exit |-> MaxExitCode, stderr |-> <<"denied">>]}

\* lines 363-395, the try block of update_env_password: every line whose
\* stripped text starts with DB_PASSWORD= is replaced, and the entry is
\* appended when no line was
UpdateEnvPassword(bytes, pw) ==
    LET lines == ReadLines(bytes)
        entry == <<"DB_PASSWORD", "=">> \o pw \o <<"\n">>
        IsPw(l) == StartsWith(Strip(l), <<"DB_PASSWORD", "=">>)
        new_lines == [i \in 1..Len(lines) |-> IF IsPw(lines[i]) THEN entry ELSE lines[i]]
        password_updated == \E i \in 1..Len(lines) : IsPw(lines[i])
    IN WriteLines(IF password_updated THEN new_lines ELSE Append(new_lines, entry))

\* the lines a drawn .env file of a project under repair is made of
RepairFileShapes ==
    {<<"DB_DATABASE", "=", "app">>,
     <<"DB_USERNAME", "=", "bob">>,
     <<"DB_PASSWORD", "=", "old">>,
     <<"#", "DB_PASSWORD", "=", "old">>}

RepairEnvFiles ==
    {WriteLines([i \in 1..Len(f) |->
                    IF i < Len(f) \/ last THEN f[i] \o <<"\n">> ELSE f[i]]) :
        f \in UNION {[1..n -> RepairFileShapes] : n \in 0..MaxLines}, last \in BOOLEAN}

\* main called with --repair on a project name: a file of the project can
\* only exist when the directory does
InitRepair ==
    /\ RcIdle
    /\ InstallIdle
    /\ MergeProcIdle
    /\ PwIdle
    /\ fsDir \in BOOLEAN
    /\ fsArtisan \in (IF fsDir THEN BOOLEAN ELSE {FALSE})
    /\ envExists \in (IF fsDir THEN BOOLEAN ELSE {FALSE})
    /\ envReadable \in (IF envExists THEN BOOLEAN ELSE {FALSE})
    /\ envWritable \in (IF envExists THEN BOOLEAN ELSE {FALSE})
    /\ envBytes \in (IF envExists THEN RepairEnvFiles ELSE {<<>>})
    /\ envInput = envBytes
    /\ readResult = PendingRead
    /\ pcRepair = "check_dir"
    /\ new_password = <<>>
    /\ repairStep = 1
    /\ repairLog = <<>>
    /\ repairFailed = "none"
    /\ repairRet = "none"
    /\ repairExc = "none"
    /\ finalizeRet = "none"
    /\ repairLast = NoCommand
    /\ repairMysqlRet = "none"

installVars == <<rcVars, mainVars, gateVars, mysqlVars, deployVars>>

\* lines 522-524
RepairCheckDir ==
    /\ pcRepair = "check_dir"
    /\ IF fsDir
       THEN pcRepair' = "check_artisan" /\ repairExc' = repairExc
       ELSE pcRepair' = "raised" /\ repairExc' = "FileNotFoundError"
    /\ UNCHANGED <<new_password, repairMysqlRet,
                   repairStep, repairLog, repairFailed, repairRet,
                   finalizeRet, repairLast>>
    /\ UNCHANGED <<mergeVars, fsVars, pwVars, readResult, installVars>>

\* the entry of the try block with no check of the artisan file before it
RepairCheckArtisan_Skip ==
    /\ pcRepair = "check_artisan"
    /\ pcRepair' = "read_env"
    /\ UNCHANGED <<new_password, repairMysqlRet,
                   repairStep, repairLog, repairFailed, repairRet,
                   repairExc, finalizeRet, repairLast>>
    /\ UNCHANGED <<mergeVars, fsVars, pwVars, readResult, installVars>>

\* lines 526-528
RepairCheckArtisan ==
    /\ pcRepair = "check_artisan"
    /\ IF fsArtisan
       THEN pcRepair' = "read_env" /\ repairExc' = repairExc
       ELSE pcRepair' = "raised" /\ repairExc' = "ValueError"
    /\ UNCHANGED <<new_password, repairMysqlRet,
                   repairStep, repairLog, repairFailed, repairRet,
                   finalizeRet, repairLast>>
    /\ UNCHANGED <<mergeVars, fsVars, pwVars, readResult, installVars>>

\* lines 531-534, step 1: an exception of read_env_file leaves the try block
RepairReadEnv ==
    /\ pcRepair = "read_env"
    /\ repairLog' = Append(repairLog, "read_env_file")
    /\ readResult' = ReadEnvFile(envExists, envReadable, envBytes)
    /\ IF readResult'.kind = "return"
       THEN /\ pcRepair' = "gen_password"
            /\ UNCHANGED <<repairFailed, repairExc>>
       ELSE /\ pcRepair' = "except"
            /\ repairFailed' = "read_env_file"
            /\ repairExc' = readResult'.exc
    /\ UNCHANGED <<new_password, repairMysqlRet,
                   repairStep, repairRet, finalizeRet, repairLast>>
    /\ UNCHANGED <<mergeVars, fsVars, pwVars, installVars>>

\* lines 536-539, step 2
RepairGenPassword ==
    /\ pcRepair = "gen_password"
    /\ repairLog' = Append(repairLog, "generate_secure_password")
    /\ new_password' \in Passwords
    /\ UNCHANGED repairMysqlRet
    /\ pcRepair' = "mysql"
    /\ UNCHANGED <<repairStep, repairFailed, repairRet, repairExc, finalizeRet,
                   repairLast>>
    /\ UNCHANGED <<mergeVars, fsVars, pwVars, readResult, installVars>>

\* what a run_command call leaves in repairLast
LastCommand(cmd, o, r) ==
    [cmd |-> cmd, exit |-> SeenExit(o), stderr |-> o.stderr, raised |-> r.kind = "raise"]

\* a statement of repair_mysql_user whose failure is not looked at
RepairMysqlStep_IgnoreFailure ==
    /\ pcRepair = "mysql"
    /\ repairLog' = Append(repairLog, RepairMysqlCommands[repairStep])
    /\ \E o \in RepairOutcomes :
         LET r == RunCommand(o.popen, o.exit, o.stderr, {}) IN
         /\ repairLast' = LastCommand(RepairMysqlCommands[repairStep], o, r)
         /\ repairFailed' = IF r.kind = "return" THEN repairFailed ELSE "repair_mysql_user"
         /\ IF repairStep < Len(RepairMysqlCommands)
            THEN /\ pcRepair' = "mysql"
                 /\ repairStep' = repairStep + 1
                 /\ repairMysqlRet' = repairMysqlRet
            ELSE /\ pcRepair' = "update_env"
                 /\ repairStep' = repairStep
                 /\ repairMysqlRet' = "True"
    /\ UNCHANGED <<new_password, repairRet, repairExc, finalizeRet>>
    /\ UNCHANGED <<mergeVars, fsVars, pwVars, readResult, installVars>>

\* a repair_mysql_user that stops at a failed statement and returns True
RepairMysqlStep_ReturnTrue ==
    /\ pcRepair = "mysql"
    /\ repairLog' = Append(repairLog, RepairMysqlCommands[repairStep])
    /\ \E o \in RepairOutcomes :
         LET r == RunCommand(o.popen, o.exit, o.stderr, {}) IN
         /\ repairLast' = LastCommand(RepairMysqlCommands[repairStep], o, r)
         /\ IF r.kind = "return" /\ repairStep < Len(RepairMysqlCommands)
            THEN /\ pcRepair' = "mysql"
                 /\ repairStep' = repairStep + 1
                 /\ repairMysqlRet' = repairMysqlRet
            ELSE /\ pcRepair' = "update_env"
                 /\ repairStep' = repairStep
                 /\ repairMysqlRet' = "True"
    /\ UNCHANGED <<new_password, repairRet, repairFailed, repairExc, finalizeRet>>
    /\ UNCHANGED <<mergeVars, fsVars, pwVars, readResult, installVars>>

\* lines 541-544, step 3, with repair_mysql_user (328-360): one statement
\* per step; the first that raises makes repair_mysql_user return False and
\* repair_installation raise RuntimeError
RepairMysqlStep ==
    /\ pcRepair = "mysql"
    /\ repairLog' = Append(repairLog, RepairMysqlCommands[repairStep])
    /\ \E o \in RepairOutcomes :
         LET r == RunCommand(o.popen, o.exit, o.stderr, {}) IN
         /\ repairLast' = LastCommand(RepairMysqlCommands[repairStep], o, r)
         /\ IF r.kind = "raise"
            THEN /\ pcRepair' = "except"
                 /\ repairMysqlRet' = "False"
                 /\ repairFailed' = "repair_mysql_user"
                 /\ repairExc' = "RuntimeError"
                 /\ repairStep' = repairStep
            ELSE /\ UNCHANGED <<repairFailed, repairExc>>
                 /\ IF repairStep < Len(RepairMysqlCommands)
                    THEN /\ pcRepair' = "mysql"
                         /\ repairStep' = repairStep + 1
                         /\ repairMysqlRet' = repairMysqlRet
                    ELSE /\ pcRepair' = "update_env"
                         /\ repairStep' = repairStep
                         /\ repairMysqlRet' = "True"
    /\ UNCHANGED <<new_password, repairRet, finalizeRet>>
    /\ UNCHANGED <<mergeVars, fsVars, pwVars, readResult, installVars>>

\* lines 546-549, step 4, with update_env_password (363-395): a file that
\* cannot be opened makes it return False with the file as it was
RepairUpdateEnv ==
    /\ pcRepair = "update_env"
    /\ repairLog' = Append(repairLog, "update_env_password")
    /\ IF envExists /\ envReadable /\ envWritable
       THEN /\ envBytes' = UpdateEnvPassword(envBytes, new_password)
            /\ pcRepair' = "fin_check_artisan"
            /\ UNCHANGED <<repairFailed, repairExc>>
       ELSE /\ envBytes' = envBytes
            /\ pcRepair' = "except"
            /\ repairFailed' = "update_env_password"
            /\ repairExc' = "RuntimeError"
    /\ UNCHANGED <<new_password, repairMysqlRet,
                   repairStep, repairRet, finalizeRet, repairLast>>
    /\ UNCHANGED <<envInput, env_vars, new_env_lines, mergeCount, envAfterFirst>>
    /\ UNCHANGED <<fsVars, pwVars, readResult, installVars>>

\* lines 551-554 and 404-411, step 5: the call of
\* finalize_laravel_installation and its two checks of the project, made
\* before its try block
FinalizeCheckProject ==
    /\ pcRepair = "fin_check_artisan"
    /\ repairLog' = Append(repairLog, "finalize_laravel_installation")
    /\ IF fsArtisan /\ envExists
       THEN /\ pcRepair' = "fin_php_version"
            /\ UNCHANGED <<repairFailed, repairExc, finalizeRet>>
       ELSE /\ pcRepair' = "except"
            /\ repairFailed' = "finalize_laravel_installation"
            /\ repairExc' = "RuntimeError"
            /\ finalizeRet' = "raised"
    /\ UNCHANGED <<new_password, repairMysqlRet, repairStep, repairRet, repairLast>>
    /\ UNCHANGED <<mergeVars, fsVars, pwVars, readResult, installVars>>

\* one run_command call of finalize_laravel_installation: on success go on at
\* `to`; on an error go on at `onFail`, or, when onFail is "abort", leave the
\* try block: finalize returns False (508-510) and repair_installation raises
\* RuntimeError (553-554)
FinalizeRun(from, cmd, ignore, to, onFail) ==
    /\ pcRepair = from
    /\ repairLog' = Append(repairLog, cmd)
    /\ \E o \in RepairOutcomes :
         LET r == RunCommand(o.popen, o.exit, o.stderr, ignore) IN
         /\ repairLast' = LastCommand(cmd, o, r)
         /\ IF r.kind = "return"
            THEN /\ pcRepair' = to
                 /\ UNCHANGED <<repairFailed, repairExc, finalizeRet>>
            ELSE IF onFail # "abort"
            THEN /\ pcRepair' = onFail
                 /\ UNCHANGED <<repairFailed, repairExc, finalizeRet>>
            ELSE /\ pcRepair' = "except"
                 /\ repairFailed' = "finalize_laravel_installation"
                 /\ repairExc' = "RuntimeError"
                 /\ finalizeRet' = "False"
    /\ UNCHANGED <<new_password, repairMysqlRet, repairStep, repairRet>>
    /\ UNCHANGED <<mergeVars, fsVars, pwVars, readResult, installVars>>

\* lines 417-421
FinalizePhpVersion ==
    FinalizeRun("fin_php_version", "php --version", {}, "fin_config_clear", "abort")

\* lines 424-429: no try block of its own and no ignored exit code
FinalizeConfigClear ==
    FinalizeRun("fin_config_clear", "php artisan config:clear", {}, "fin_artisan_version",
                "abort")

\* lines 432-438: a failure skips the rest of the inner try block (446-448)
FinalizeArtisanVersion ==
    FinalizeRun("fin_artisan_version", "php artisan --version", {}, "fin_migrate_status",
                "fin_cache_table")

\* lines 441-448
FinalizeMigrateStatus ==
    FinalizeRun("fin_migrate_status", "php artisan migrate:status", {}, "fin_cache_table",
                "fin_cache_table")

\* a cache:table call outside a try block of its own
FinalizeCacheTable_Fatal ==
    FinalizeRun("fin_cache_table", "php artisan cache:table", {}, "fin_migrate_force",
                "abort")

\* lines 451-459
FinalizeCacheTable ==
    FinalizeRun("fin_cache_table", "php artisan cache:table", {}, "fin_migrate_force",
                "fin_migrate_force")

\* the forced migration followed by the unforced one whatever it did
FinalizeMigrateForce_AlwaysFallback ==
    FinalizeRun("fin_migrate_force", "php artisan migrate --force", {}, "fin_migrate",
                "fin_migrate")

\* lines 462-470
FinalizeMigrateForce ==
    FinalizeRun("fin_migrate_force", "php artisan migrate --force", {}, "fin_key_generate",
                "fin_migrate")

\* lines 473-480: the fallback; its failure raises RuntimeError again
FinalizeMigrate ==
    FinalizeRun("fin_migrate", "php artisan migrate", {}, "fin_key_generate", "abort")

\* lines 483-487
FinalizeKeyGenerate ==
    FinalizeRun("fin_key_generate", "php artisan key:generate --force", {},
                "fin_cache_clear", "abort")

\* lines 490-496: ignore_error_codes=[1]
FinalizeCacheClear ==
    FinalizeRun("fin_cache_clear", "php artisan cache:clear", {1}, "fin_optimize_clear",
                "abort")

\* lines 499-503
FinalizeOptimizeClear ==
    FinalizeRun("fin_optimize_clear", "php artisan optimize:clear", {}, "fin_return",
                "abort")

\* lines 505-506 and 553: finalize returns True to repair_installation
FinalizeReturnTrue ==
    /\ pcRepair = "fin_return"
    /\ finalizeRet' = "True"
    /\ pcRepair' = "return_true"
    /\ UNCHANGED <<new_password, repairMysqlRet,
                   repairStep, repairLog, repairFailed, repairRet,
                   repairExc, repairLast>>
    /\ UNCHANGED <<mergeVars, fsVars, pwVars, readResult, installVars>>

\* lines 556-567
RepairReturnTrue ==
    /\ pcRepair = "return_true"
    /\ repairRet' = "True"
    /\ pcRepair' = "returned"
    /\ UNCHANGED <<new_password, repairMysqlRet,
                   repairStep, repairLog, repairFailed, repairExc,
                   finalizeRet, repairLast>>
    /\ UNCHANGED <<mergeVars, fsVars, pwVars, readResult, installVars>>

\* lines 569-574: except Exception returns False; nothing is undone
RepairExcept ==
    /\ pcRepair = "except"
    /\ repairRet' = "False"
    /\ repairExc' = "none"
    /\ pcRepair' = "returned"
    /\ UNCHANGED <<new_password, repairMysqlRet,
                   repairStep, repairLog, repairFailed, finalizeRet,
                   repairLast>>
    /\ UNCHANGED <<mergeVars, fsVars, pwVars, readResult, installVars>>

\* lines 596-598 of main: sys.exit(0 if success else 1)
MainRepairExit ==
    /\ pcRepair = "returned"
    /\ exitCode' = IF repairRet = "True" THEN 0 ELSE 1
    /\ pcRepair' = "done"
    /\ UNCHANGED <<new_password, repairMysqlRet,
                   repairStep, repairLog, repairFailed, repairRet,
                   repairExc, finalizeRet, repairLast>>
    /\ UNCHANGED <<mergeVars, fsVars, pwVars, readResult>>
    /\ UNCHANGED <<rcVars, pcMain, gateVars, mysqlVars, deployVars>>

\* lines 599-601 of main: an exception of repair_installation ends in exit 1
MainRepairFatal ==
    /\ pcRepair = "raised"
    /\ exitCode' = 1
    /\ pcRepair' = "done"
    /\ UNCHANGED <<new_password, repairMysqlRet,
                   repairStep, repairLog, repairFailed, repairRet,
                   repairExc, finalizeRet, repairLast>>
    /\ UNCHANGED <<mergeVars, fsVars, pwVars, readResult>>
    /\ UNCHANGED <<rcVars, pcMain, gateVars, mysqlVars, deployVars>>

FinalizeNext ==
    \/ FinalizeCheckProject
    \/ FinalizePhpVersion
    \/ FinalizeConfigClear
    \/ FinalizeArtisanVersion
    \/ FinalizeMigrateStatus
    \/ FinalizeCacheTable
    \/ FinalizeMigrateForce
    \/ FinalizeMigrate
    \/ FinalizeKeyGenerate
    \/ FinalizeCacheClear
    \/ FinalizeOptimizeClear
    \/ FinalizeReturnTrue

NextRepair ==
    \/ RepairCheckDir
    \/ RepairCheckArtisan
    \/ RepairReadEnv
    \/ RepairGenPassword
    \/ RepairMysqlStep
    \/ RepairUpdateEnv
    \/ FinalizeNext
    \/ RepairReturnTrue
    \/ RepairExcept
    \/ MainRepairExit
    \/ MainRepairFatal

SpecRepair == InitRepair /\ [][NextRepair]_vars

\* C18: repair_installation on a project directory without the artisan file
\* raises an error (ValueError) before it runs any external command and
\* before it reads or modifies the .env file.
C18_NotLaravelRaisesFirst ==
    (pcRepair # "none" /\ fsDir /\ ~fsArtisan) =>
        /\ pcRepair \in {"check_dir", "check_artisan", "raised", "done"}
        /\ repairLog = <<>>
        /\ repairLast = NoCommand
        /\ readResult = PendingRead
        /\ envBytes = envInput
        /\ pcRepair \in {"raised", "done"} => (repairExc = "ValueError" /\ repairRet = "none")

C18_Witness ==
    /\ fsDir
    /\ ~fsArtisan
    /\ envExists
    /\ envBytes # <<>>
    /\ pcRepair = "done"
    /\ repairExc = "ValueError"
    /\ repairLog = <<>>
    /\ exitCode = 1

\* the file has a line that sets the key to a value that is not empty once
\* its quotes are taken off, and no later line that sets it to an empty one
HasIdentity(bytes, key) ==
    LET cfg == ParseEnvLines(<<>>, ReadLines(bytes))
    IN <<key>> \in DOMAIN cfg /\ cfg[<<key>>] # <<>>

\* C19: when the file can be read and DB_DATABASE or DB_USERNAME is absent
\* or empty, read_env_file raises ValueError, and it raises another kind of
\* error for other read failures.
C19_MissingIdentityIsValueError ==
    readResult.kind # "pending" =>
        /\ (/\ envExists
            /\ envReadable
            /\ ~(HasIdentity(envBytes, "DB_DATABASE") /\ HasIdentity(envBytes, "DB_USERNAME")))
           => (readResult.kind = "raise" /\ readResult.exc = "ValueError")
        /\ (envExists /\ ~envReadable)
           => (readResult.kind = "raise" /\ readResult.exc # "ValueError")


\* the commands of finalize_laravel_installation
FinalizeCommands ==
    {"php --version", "php artisan config:clear", "php artisan --version",
     "php artisan migrate:status", "php artisan cache:table",
     "php artisan migrate --force", "php artisan migrate",
     "php artisan key:generate --force", "php artisan cache:clear",
     "php artisan optimize:clear"}

InRepairLog(x) == \E i \in 1..Len(repairLog) : repairLog[i] = x

\* C20: once a step of repair_installation (read the .env file, rotate the
\* credential, patch the .env file, finalize) has failed, the run reports
\* failure, the failed step is the last one executed, and what was done
\* before stays as it is; when the rotation failed the .env file is the one
\* found at the start and no finalization command has run.
C20_FailureStopsRepair ==
    repairFailed # "none" =>
        /\ pcRepair \in {"except", "returned", "done"}
        /\ pcRepair # "except" => repairRet = "False"
        /\ pcRepair = "done" => exitCode = 1
        /\ repairFailed = "read_env_file" =>
              /\ repairLog = <<"read_env_file">>
              /\ envBytes = envInput
        /\ repairFailed = "repair_mysql_user" =>
              /\ repairLast.raised
              /\ repairLog[Len(repairLog)] = repairLast.cmd
              /\ repairLast.cmd = RepairMysqlCommands[repairStep]
              /\ envBytes = envInput
              /\ ~InRepairLog("update_env_password")
              /\ ~InRepairLog("finalize_laravel_installation")
              /\ \A c \in FinalizeCommands : ~InRepairLog(c)
        /\ repairFailed = "update_env_password" =>
              /\ repairLog[Len(repairLog)] = "update_env_password"
              /\ repairLast.cmd = RepairMysqlCommands[Len(RepairMysqlCommands)]
              /\ ~repairLast.raised
              /\ envBytes = envInput
        /\ repairFailed = "finalize_laravel_installation" =>
              /\ repairLog[Len(repairLog)] \in {repairLast.cmd, "finalize_laravel_installation"}
              /\ envBytes = UpdateEnvPassword(envInput, new_password)

C20_Witness ==
    /\ repairFailed = "repair_mysql_user"
    /\ repairStep = 3
    /\ pcRepair = "done"
    /\ repairRet = "False"
    /\ exitCode = 1
    /\ envExists
    /\ envBytes = envInput


\* C21: in finalize_laravel_installation a failure of `php artisan
\* config:clear` is tolerated: finalization goes on with the next step.
C21_ConfigClearTolerated ==
    (repairLast.cmd = "php artisan config:clear" /\ repairLast.raised) =>
        /\ pcRepair = "fin_artisan_version"
        /\ repairFailed = "none"
        /\ finalizeRet # "False"

\* C22: in finalize_laravel_installation a failure of `php artisan
\* cache:clear` with any nonzero exit code is tolerated: the next step is
\* `php artisan optimize:clear`.
C22_CacheClearTolerated ==
    (repairLast.cmd = "php artisan cache:clear" /\ repairLast.exit > 0) =>
        /\ ~repairLast.raised
        /\ pcRepair = "fin_optimize_clear"
        /\ repairFailed = "none"
        /\ finalizeRet # "False"

\* the steps of finalize_laravel_installation that follow the migration
AfterMigration ==
    {"php artisan key:generate --force", "php artisan cache:clear",
     "php artisan optimize:clear"}

\* C23: `php artisan migrate` is run only as the step right after a failed
\* `php artisan migrate --force`; when it succeeds finalization goes on with
\* key:generate, and when it fails too finalization fails and none of
\* key:generate, cache:clear, optimize:clear has run.
C23_MigrateFallback ==
    [][/\ (repairLog' # repairLog /\ repairLast'.cmd = "php artisan migrate") =>
              /\ repairLast.cmd = "php artisan migrate --force"
              /\ repairLast.raised
              /\ pcRepair = "fin_migrate"
       /\ (repairLast.cmd = "php artisan migrate --force" /\ ~repairLast.raised) =>
              repairLast'.cmd # "php artisan migrate"
       /\ (repairLast'.cmd = "php artisan migrate" /\ ~repairLast'.raised) =>
              /\ pcRepair' = "fin_key_generate"
              /\ repairFailed' = "none"
       /\ (repairLast'.cmd = "php artisan migrate" /\ repairLast'.raised) =>
              /\ finalizeRet' = "False"
              /\ repairFailed' = "finalize_laravel_installation"
              /\ pcRepair' \in {"except", "returned", "done"}
              /\ \A c \in AfterMigration : \A i \in 1..Len(repairLog') : repairLog'[i] # c
      ]_vars

C23_Witness ==
    /\ InRepairLog("php artisan migrate")
    /\ InRepairLog("php artisan optimize:clear")
    /\ finalizeRet = "True"
    /\ repairRet = "True"

\* update_env_password has returned True
UpdateReturnedTrue ==
    /\ InRepairLog("update_env_password")
    /\ repairFailed # "update_env_password"

\* the line DB_PASSWORD=<new password>
PasswordLine == <<"DB_PASSWORD", "=">> \o new_password \o <<"\n">>

IsPasswordLine(l) == StartsWith(Strip(l), <<"DB_PASSWORD", "=">>)

\* C24: after update_env_password returned True the .env file has a line
\* that is DB_PASSWORD=<new password>; every DB_PASSWORD line of the input is
\* replaced where it stood, and when the input has none the entry is the last
\* line, after all lines of the input, also for an input whose last line has
\* no line end.
C24_PasswordLineWritten ==
    UpdateReturnedTrue =>
        LET before == ReadLines(envInput)
            after == ReadLines(envBytes)
        IN /\ \E i \in 1..Len(after) : after[i] = PasswordLine
           /\ \A i \in 1..Len(after) : IsPasswordLine(after[i]) => after[i] = PasswordLine
           /\ IF \E i \in 1..Len(before) : IsPasswordLine(before[i])
              THEN /\ Len(after) = Len(before)
                   /\ \A i \in 1..Len(before) :
                        IF IsPasswordLine(before[i])
                        THEN after[i] = PasswordLine
                        ELSE after[i] = before[i]
              ELSE /\ Len(after) = Len(before) + 1
                   /\ after[Len(after)] = PasswordLine
                   /\ \A i \in 1..Len(before) : Strip(after[i]) = Strip(before[i])


\* ------------------------------------------------- generate_secure_password
MaxLength == 13

\* the number of draws of line 32 that range over the sampled characters
MaxVaried == 2

\* the default of the parameter length
DefaultLength == 16

\* the least length of a password
MinLength == 12

\* string.digits
DigitChars == <<"0", "1", "2", "3", "4", "5", "6", "7", "8", "9">>

\* string.ascii_uppercase
UppercaseChars ==
    <<
      "A", "B", "C", "D", "E", "F", "G", "H", "I", "J", "K", "L", "M",
      "N", "O", "P", "Q", "R", "S", "T", "U", "V", "W", "X", "Y", "Z">>

\* string.ascii_lowercase
LowercaseChars ==
    <<
      "a", "b", "c", "d", "e", "f", "g", "h", "i", "j", "k", "l", "m",
      "n", "o", "p", "q", "r", "s", "t", "u", "v", "w", "x", "y", "z">>

\* special_chars
SpecialChars == <<"@", "#", "%", "^", "-", "_", "=", "+", ":", ",", ".", "~">>

Range(f) == {f[i] : i \in DOMAIN f}

\* all_chars
AllChars == DigitChars \o UppercaseChars \o LowercaseChars \o SpecialChars

\* the four classes and all_chars, as sets of characters
Digits == Range(DigitChars)

Uppercase == Range(UppercaseChars)

Lowercase == Range(LowercaseChars)

Special == Range(SpecialChars)

AllCharSet == Range(AllChars)

\* the characters random.choice is let return in a drawn run
SampleChars == {"0", "7", "A", "Z", "a", "z", "-", "="}

\* random.choice(chars), within the sample
Choices(chars) == Range(chars) \cap SampleChars

\* the character the draws of line 32 after the first MaxVaried return
FillChar == "0"

Reverse(p) == [i \in 1..Len(p) |-> p[Len(p) + 1 - i]]

RotateLeft(p) == IF p = <<>> THEN p ELSE Tail(p) \o <<Head(p)>>

\* random.shuffle(password): the orders it is let produce in a drawn run
Shuffles(p) == {p, Reverse(p), RotateLeft(p)}

\* range(n) draws of line 32
Extras(n) ==
    IF n <= 0 THEN {<<>>}
    ELSE LET v == IF n < MaxVaried THEN n ELSE MaxVaried IN
         {[i \in 1..n |-> IF i <= v THEN e[i] ELSE FillChar] :
             e \in [1..v -> Choices(AllChars)]}

\* the passwords of a function that does not raise a short length to 12
GenerateSecurePassword_NoMinimum(args) ==
    LET len == IF args = <<>> THEN DefaultLength ELSE args[1]
        firsts == {<<d, u, l, c>> : d \in Choices(DigitChars), u \in Choices(UppercaseChars),
                                    l \in Choices(LowercaseChars), c \in Choices(SpecialChars)}
    IN UNION {Shuffles(f \o e) : f \in firsts, e \in Extras(len - 4)}

\* the passwords of a function that draws every character from all_chars
GenerateSecurePassword_NoSeed(args) ==
    LET length0 == IF args = <<>> THEN DefaultLength ELSE args[1]
        len == IF length0 < MinLength THEN MinLength ELSE length0
        firsts == [1..4 -> {"a", "z"}]
    IN UNION {Shuffles(f \o e) : f \in firsts, e \in Extras(len - 4)}

\* lines 12-35: the passwords generate_secure_password can return when it is
\* called with the arguments args (<<>>: length omitted)
GenerateSecurePassword(args) ==
    LET length0 == IF args = <<>> THEN DefaultLength ELSE args[1]
        len == IF length0 < MinLength THEN MinLength ELSE length0
        firsts == {<<d, u, l, c>> : d \in Choices(DigitChars), u \in Choices(UppercaseChars),
                                    l \in Choices(LowercaseChars), c \in Choices(SpecialChars)}
    IN UNION {Shuffles(f \o e) : f \in firsts, e \in Extras(len - 4)}

\* the arguments of a drawn call: no length, length 0, and the lengths from
\* just under the least one
PasswordArgs == {<<>>} \cup {<<n>> : n \in {0} \cup (MinLength - 1)..MaxLength}

InitPassword ==
    /\ RcIdle
    /\ InstallIdle
    /\ MergeIdle
    /\ RepairIdle
    /\ pwArgs \in PasswordArgs
    /\ password = <<>>

CallGeneratePassword ==
    /\ password = <<>>
    /\ password' \in GenerateSecurePassword(pwArgs)
    /\ UNCHANGED pwArgs
    /\ UNCHANGED <<mergeVars, fsVars, readResult, repairVars, installVars>>

NextPassword == CallGeneratePassword

SpecPassword == InitPassword /\ [][NextPassword]_vars

\* C25: generate_secure_password(L) returns a string of length max(L, 12),
\* and of length 16 when L is omitted.
C25_PasswordLength ==
    password # <<>> =>
        IF pwArgs = <<>> THEN Len(password) = 16
        ELSE IF pwArgs[1] > 12 THEN Len(password) = pwArgs[1]
        ELSE Len(password) = 12

C25_Witness ==
    /\ pwArgs = <<11>>
    /\ Len(password) = 12

\* the characters test_command_injection_prevention rules out, and whitespace
ShellSpecial ==
    {"`", "$", "!", "\\", "|", ";", "&", "<", ">", "?", "*", "(", ")", "[", "]", "{", "}",
     " ", "\t", "\n", "'", "\""}

\* C26: a returned password has at least one digit, one uppercase letter,
\* one lowercase letter and one character of '@#%^-_=+:,.~', and no
\* character outside these four classes: no shell-special character and no
\* whitespace.
C26_PasswordClasses ==
    password # <<>> =>
        /\ \E i \in 1..Len(password) : password[i] \in Digits
        /\ \E i \in 1..Len(password) : password[i] \in Uppercase
        /\ \E i \in 1..Len(password) : password[i] \in Lowercase
        /\ \E i \in 1..Len(password) : password[i] \in Special
        /\ \A i \in 1..Len(password) :
              /\ password[i] \in AllCharSet
              /\ password[i] \notin ShellSpecial

C26_Witness ==
    /\ pwArgs = <<>>
    /\ password # <<>>
    /\ \E i \in 1..Len(password) : password[i] = "="
    /\ \E i \in 1..Len(password) : password[i] = "7"

\* str.upper() of one character
UpperChar(c) ==
    IF c \in Lowercase
    THEN UppercaseChars[CHOOSE i \in 1..Len(LowercaseChars) : LowercaseChars[i] = c]
    ELSE c

UpperText(t) == [i \in 1..Len(t) |-> UpperChar(t[i])]

\* the list sql_injection_patterns of test_sql_injection_prevention
SqlInjectionPatterns ==
    {<<"'">>, <<"\"">>, <<";">>, <<"-", "-">>, <<"/", "*">>, <<"*", "/">>,
     <<"D", "R", "O", "P">>, <<"D", "E", "L", "E", "T", "E">>,
     <<"I", "N", "S", "E", "R", "T">>, <<"U", "P", "D", "A", "T", "E">>}

\* pattern in text
HasSubstring(text, pattern) ==
    \E i \in 0..(Len(text) - Len(pattern)) :
        \A j \in 1..Len(pattern) : text[i + j] = pattern[j]

\* C27: no returned password contains, compared case-insensitively, one of
\* the SQL injection patterns ', ", ;, --, /*, */, DROP, DELETE, INSERT,
\* UPDATE.
C27_NoSqlInjectionPattern ==
    password # <<>> =>
        \A q \in SqlInjectionPatterns :
            /\ ~HasSubstring(password, q)
            /\ ~HasSubstring(UpperText(password), q)


\* all five provisioning statements have succeeded, and no step of the
\* deployment has failed (the test of the provisioner's status aside)
AllCommandsSucceeded ==
    /\ Len(mysqlLog) = Len(MysqlCommands)
    /\ \A i \in DOMAIN mysqlLog : mysqlLog[i].ok
    /\ deployFailed \in {"none", "status check"}

\* C28: in every interleaving in which the five provisioning commands and
\* all deployment commands succeed, the deployment reads the provisioner's
\* status as true after the gate opens, runs the migration, and the run ends
\* in success.
C28_AllSucceedMeansSuccess ==
    AllCommandsSucceeded =>
        /\ deployRead \in {"none", "true"}
        /\ deployFailed = "none"
        /\ pcDeploy = "done" =>
              \E i \in DOMAIN deployLog : deployLog[i] = "php artisan migrate"
        /\ pcMain = "exit" => exitCode = 0

\* C29: once db_ready_event is set no step of either task clears it, and
\* every set() call leaves it set and raises nothing.
C29_GateOneWay ==
    [][/\ db_ready_event => db_ready_event'
       /\ setCalls' # setCalls =>
             /\ db_ready_event'
             /\ setCalls' = setCalls + 1
             /\ pcMysql' \in {"record_true", "done"}
             /\ mysqlExc' = mysqlExc
      ]_vars

C29_Witness ==
    /\ db_ready_event
    /\ setCalls = 1
    /\ pcMysql = "done"
    /\ pcDeploy = "done"
    /\ deployRead = "true"
    /\ pcMain = "exit"

\* C30: the provisioning task issues CREATE DATABASE IF NOT EXISTS, CREATE
\* USER IF NOT EXISTS, ALTER USER, GRANT, FLUSH PRIVILEGES in this order, each
\* only after the one before it returned success, and none after the first
\* that failed.
C30_StatementOrder ==
    /\ Len(mysqlLog) <= Len(MysqlCommands)
    /\ \A i \in DOMAIN mysqlLog :
          /\ mysqlLog[i].cmd = MysqlCommands[i]
          /\ i < Len(mysqlLog) => mysqlLog[i].ok
    /\ MysqlCommands =
          <<"CREATE DATABASE IF NOT EXISTS", "CREATE USER IF NOT EXISTS", "ALTER USER",
            "GRANT ALL PRIVILEGES", "FLUSH PRIVILEGES">>

C30_Witness ==
    /\ pcMysql = "done"
    /\ Len(mysqlLog) = 4
    /\ mysqlLog[1].exit = 1
    /\ mysqlLog[1].ok
    /\ ~mysqlLog[4].ok


InDeployLog(x) == \E i \in DOMAIN deployLog : deployLog[i] = x

\* every occurrence of b in deployLog has an a before it
DeployBefore(a, b) ==
    \A j \in DOMAIN deployLog :
        deployLog[j] = b => \E i \in 1..(j - 1) : deployLog[i] = a

\* the dependency install and build commands of lines 233-256
InstallCommands ==
    {"composer require laravel/jetstream", "php artisan jetstream:install",
     "npm install", "npm run build"}

\* C31: in the deployment `php artisan key:generate` has completed before the
\* .env file is read for the merge, both come only after `composer
\* create-project` succeeded, and the merge has completed before any
\* dependency install or build command runs.
C31_DeploymentOrder ==
    /\ DeployBefore("php artisan key:generate", "update .env")
    /\ InDeployLog("update .env") => deployFailed # "php artisan key:generate"
    /\ DeployBefore("composer create-project", "php artisan key:generate")
    /\ DeployBefore("composer create-project", "update .env")
    /\ (InDeployLog("php artisan key:generate") \/ InDeployLog("update .env"))
          => deployFailed # "composer create-project"
    /\ \A c \in InstallCommands :
          /\ DeployBefore("update .env", c)
          /\ InDeployLog(c) => deployFailed # "update .env"

C31_Witness ==
    /\ InDeployLog("npm run build")
    /\ InDeployLog("update .env")
    /\ InDeployLog("php artisan key:generate")
    /\ deployFailed = "npm run build"

\* C35: a step writes the registry only by adding the entry of the task that
\* takes it, under that task's own key, which it had not written before, and
\* leaves the other entry as it is; the deployment reads the provisioner's
\* entry only when the gate is open.
C35_RegistryWrites ==
    [][/\ thread_status' # thread_status =>
             \E k \in {MysqlThread, CodebaseThread} :
                 /\ k \notin DOMAIN thread_status
                 /\ DOMAIN thread_status' = DOMAIN thread_status \cup {k}
                 /\ \A x \in DOMAIN thread_status : thread_status'[x] = thread_status[x]
                 /\ k = MysqlThread => (pcMysql' # pcMysql /\ pcDeploy' = pcDeploy)
                 /\ k = CodebaseThread => (pcDeploy' # pcDeploy /\ pcMysql' = pcMysql)
       /\ deployRead' # deployRead => db_ready_event
      ]_vars

C35_Witness ==
    /\ DOMAIN thread_status = {MysqlThread, CodebaseThread}
    /\ thread_status[MysqlThread] = FALSE
    /\ thread_status[CodebaseThread] = FALSE
    /\ deployRead = "false"

\* C36: at every point of an installation, when the registry maps the
\* deployment task to true it maps the provisioning task to true; so the
\* overall success of line 685 is the deployment's status being true.
C36_DeployTrueImpliesMysqlTrue ==
    /\ DictGet(thread_status, CodebaseThread, FALSE)
          => DictGet(thread_status, MysqlThread, FALSE)
    /\ OverallSuccess <=> DictGet(thread_status, CodebaseThread, FALSE)
    /\ pcMain = "exit" => (exitCode = 0 <=> DictGet(thread_status, CodebaseThread, FALSE))

C36_Witness ==
    /\ pcMain = "exit"
    /\ exitCode = 0
    /\ DictGet(thread_status, CodebaseThread, FALSE)
    /\ DictGet(thread_status, MysqlThread, FALSE)

\* C37: the deployment records its status as true only if `php artisan
\* migrate` and `php artisan optimize:clear` each exited with code 0.
C37_TrueOnlyAfterExitZero ==
    DictGet(thread_status, CodebaseThread, FALSE) =>
        \A c \in CredentialDependent : c \in DOMAIN deployExits /\ deployExits[c] = 0


\* C34: the error run_command raises for a nonzero exit that is neither
\* benign nor ignored is the command-failed error ('Command failed: ...'), of
\* a kind other than the error raised when the executable is not found and
\* other than the wrapper of an unexpected error.
C34_CommandFailedIsDistinct ==
    (rcResult.kind = "raise" /\ rcPopen = "ok") =>
        /\ rcResult.msg = "Command failed"
        /\ rcResult.exc # RunCommand("FileNotFoundError", 0, <<>>, {}).exc
        /\ rcResult.exc # RunCommand("OSError", 0, <<>>, {}).exc


\* the steps of repair_installation that precede the call of
\* repair_mysql_user
StepsBeforeMysql == 2

\* C32: repair_mysql_user issues DROP USER IF EXISTS, CREATE USER, ALTER
\* USER, GRANT, FLUSH PRIVILEGES in this order, stops at the first statement
\* that fails, then returns False and raises nothing, and returns True only
\* when all five statements succeeded.
C32_RotationStatements ==
    /\ RepairMysqlCommands =
          <<"DROP USER IF EXISTS", "CREATE USER", "ALTER USER", "GRANT ALL PRIVILEGES",
            "FLUSH PRIVILEGES">>
    /\ \A i \in 1..Len(RepairMysqlCommands) :
          Len(repairLog) >= StepsBeforeMysql + i =>
              repairLog[StepsBeforeMysql + i] = RepairMysqlCommands[i]
    /\ (repairLast.raised /\ \E i \in 1..Len(RepairMysqlCommands) :
                                 repairLast.cmd = RepairMysqlCommands[i]) =>
          /\ repairMysqlRet = "False"
          /\ repairLog[Len(repairLog)] = repairLast.cmd
          /\ Len(repairLog) = StepsBeforeMysql + repairStep
    /\ repairMysqlRet = "False" =>
          /\ repairLast.raised
          /\ repairLast.cmd = RepairMysqlCommands[repairStep]
          /\ repairFailed = "repair_mysql_user"
    /\ repairMysqlRet = "True" =>
          /\ Len(repairLog) >= StepsBeforeMysql + Len(RepairMysqlCommands)
          /\ repairFailed # "repair_mysql_user"
          /\ repairLast.cmd = RepairMysqlCommands[Len(RepairMysqlCommands)]
                => ~repairLast.raised

C32_Witness ==
    /\ repairMysqlRet = "False"
    /\ repairStep = 2
    /\ repairLog = <<"read_env_file", "generate_secure_password", "DROP USER IF EXISTS",
                     "CREATE USER">>
    /\ repairRet = "False"

\* the checks of finalize_laravel_installation whose failure is tolerated
ToleratedChecks ==
    {"php artisan --version", "php artisan migrate:status", "php artisan cache:table"}

\* C33: a failure of `php artisan --version`, `php artisan migrate:status`
\* or `php artisan cache:table` does not end the finalization: once `php
\* --version` and `php artisan config:clear` have succeeded, a finalization
\* that has ended has attempted `php artisan migrate --force`.
C33_ChecksTolerated ==
    /\ (repairLast.cmd \in ToleratedChecks /\ repairLast.raised) =>
          /\ repairFailed = "none"
          /\ finalizeRet = "none"
          /\ pcRepair \in {"fin_cache_table", "fin_migrate_force"}
    /\ (InRepairLog("php artisan --version") /\ finalizeRet # "none") =>
          InRepairLog("php artisan migrate --force")

C33_Witness ==
    /\ repairLast.cmd = "php artisan cache:table"
    /\ repairLast.raised
    /\ ~InRepairLog("php artisan migrate:status")
    /\ pcRepair = "fin_migrate_force"

\* C38: after repair_installation returned True, the DB_PASSWORD that
\* read_env_file finds in the .env file is the password the rotation
\* statements set, for every .env file that defines DB_DATABASE and
\* DB_USERNAME.
C38_PasswordReadBack ==
    repairRet = "True" =>
        DictGet(ParseEnvLines(<<>>, ReadLines(envBytes)), <<"DB_PASSWORD">>, NoneValue)
            = new_password

====
